---- MODULE Spec2Model ----
(***************************************************************************)
(* Verification model of the MCP client layer (pkg/mcp): the stdio and SSE *)
(* JSON-RPC clients with their pending tables and background readers, and  *)
(* the provider Manager.                                                   *)
(*                                                                         *)
(* One client is modelled at a time; its transport is chosen in Init       *)
(* (kind).  Requests are identified by the id the client's atomic counter  *)
(* hands out, so request r is the call whose JSON-RPC id is r.             *)
(*                                                                         *)
(* A Go select is modelled as the runtime executes it: when the select is  *)
(* entered and several cases are ready, any of them may be taken; when     *)
(* none is ready the goroutine parks on all its channels and the first     *)
(* channel operation that fires (a send, a close) decides the case.  A     *)
(* woken call returns in the same step: the deferred delete of its pending *)
(* slot is part of the step that decides what the call returns.            *)
(*                                                                         *)
(* What belongs to a call's frame (its ctx, where it was transmitted) is   *)
(* kept while the call is in flight and dropped when it returns; what it   *)
(* returned stays in outcome and got.  A response channel that neither its *)
(* call nor the reader can reach any more is garbage: its buffer is        *)
(* dropped.                                                                *)
(***************************************************************************)
EXTENDS Integers, Sequences, FiniteSets, TLC

\* ------------------------------------------------------------------ bounds
MaxReq == 2       \* sendRequest calls made on the client
MaxLines == 2     \* lines of one SSE event before the empty line that ends it
NCallers == 2     \* goroutines calling the Manager
MaxClients == 2   \* clients the Manager creates over a run
MaxBlocks == 2    \* content blocks of a CallToolResult
MaxIds == 11      \* request ids one client hands out
MaxPath == 3      \* components of a path given to validatePath
MaxLinks == 3     \* links EvalSymlinks follows before it gives up
NWriters == 2     \* goroutines calling WriteFile on one path
MaxTime == 2      \* readings of the clock
MaxHits == 2      \* tools one search returns
MaxEventLines == 3  \* lines of one SSE event before its empty line
MaxEvents == 2  \* SSE events the line-by-line reader terminates
MaxTTL == 3       \* the TTL of a promotion made directly
MaxText == 3      \* characters of the file edit_file is called on
MaxArg == 2       \* characters of old_text and of new_text
NAppenders == 2   \* goroutines calling append_file on one path

Ids == 1..MaxReq
Callers == 1..NCallers
ClientIds == 1..MaxClients

\* A JSON-RPC response as the reader decodes it: its id and whether "error" is set.
Msg == [id : Ids, err : BOOLEAN]

\* The lines of stdout (one frame per line).
StdioFrames == [f : {"resp"}, msg : Msg] \cup {[f |-> "garbage"], [f |-> "notif"]}

\* The payload of an SSE data: line: the endpoint URL or a JSON-RPC response.
UrlTok == [url |-> "endpoint"]
DataToks == {UrlTok} \cup Msg

\* The lines of the SSE stream other than the empty line.
SSELines ==
  {[l |-> "other"]}
    \cup [l : {"event"}, name : {"endpoint", "message"}]
    \cup [l : {"data"}, tok : DataToks]

\* The lines of one event, up to the empty line that ends it.
EventLines == UNION {[1..n -> SSELines] : n \in 0..MaxLines}

VARIABLES
  \* ---- the client (StdioClient / SSEClient)
  kind,          \* "stdio" | "sse"
  ctorPc,        \* constructor: "connect" | "select" | "ok" | "fail"
  nextID,        \* c.nextID
  pending,       \* the ids that are keys of c.pending
  chanBuf,       \* respCh of request r: its buffer (capacity 1)
  pc,            \* sendRequest r: "none" | "installed" | "posted" | "select" |
                 \* "parked" | "done"
  outcome,       \* what sendRequest r returned
  got,           \* the id of the response sendRequest r received (0: none)
  callerCtx,     \* the ctx of in-flight sendRequest r is cancelled
  wire,          \* where in-flight request r was transmitted
  afterEOF,      \* in-flight sendRequest r was started after the reader had exited
  clientCtx,     \* c.ctx is cancelled
  stdinClosed,   \* c.stdin was closed by Close
  childExited,   \* the subprocess has exited (its end of stdin is gone)
  closePc,       \* Close: "idle" | "cancelled" | "stdin" | "done"
  rd,            \* readLoop: "off" | "scan" | "resolving" | "send" | "exited"
  held,          \* the channel and message of readLoop's pending `ch <- &msg`
  unknownID,     \* the id of the last response readLoop found no slot for (0: none)
  urlWrite,      \* SSE readLoop: the value resolvePostURL is writing to c.postURL
  postReady,     \* c.postReady is closed
  readyCloses,   \* how many times close(c.postReady) ran
  postURL,       \* c.postURL: "sse" (the GET URL) | "endpoint" | "bad"
  endpointSeen,  \* the reader has stored the URL of an `endpoint` event
  postStatus,    \* resp.StatusCode of the POST of request r, until it is checked
  currentEvent,  \* SSE readLoop: currentEvent
  dataBuffer,    \* SSE readLoop: dataBuffer, the payloads written to it
  lineLog,       \* the lines the SSE reader scanned since the last empty line
  handled,       \* the calls of handleMessage so far: the data of each
  nEvents,       \* the empty lines the SSE reader scanned so far
  \* ---- the Manager
  mu,            \* holder of m.mu (0: free)
  clients,       \* m.clients: alias -> client (0: no entry)
  registry,      \* the ToolRegistry: registered name -> its adapter's client
  created,       \* number of clients constructed so far
  cKind,         \* client c's transport
  cAlias,        \* the alias client c was built for
  closeCalled,   \* clients on which Close() was called
  mpc,           \* position of caller g
  mcfg,          \* the ServerConfig of caller g's StartAndRegister
  mclient,       \* the client caller g's StartAndRegister built (0: none)
  mtools,        \* the tools ListTools returned to caller g, still to register
  mres,          \* result of caller g's last call
  iter,          \* Shutdown: the map entries the range loop has still to visit
  snap,          \* Shutdown: the clients that were in the map when it started
  \* ---- MCPToolAdapter.Execute
  exec,          \* the last Execute on an adapter: its client's state and its result
  \* ---- Manager.InitFromConfig
  icfg,          \* the InitFromConfig under way: its caller (0: none) and cfg.Servers
  todo,          \* the names its range has still to visit
  cur,           \* the name of the current iteration (<<>>: between iterations)
  iout,          \* the names visited and what StartAndRegister returned, in order
  \* ---- request ids
  issued,        \* the ids handed out by one client, in the order of the increments
  myId,          \* the id sendRequest of caller g holds
  \* ---- one MCPToolAdapter
  adapter,       \* its originalName and the name of its definition
  called,        \* the tool name its last Execute passed to CallTool
  callRet,       \* what that CallTool returned
  toolResult,    \* what that Execute returned
  \* ---- the file tools
  vp,            \* the last call of validatePath: its arguments, the file system, its results
  names,         \* the directory: the file each name names (0: none)
  inodes,        \* what each file holds
  ninodes,       \* the files created so far
  now,           \* the last reading of the clock
  wpc,           \* where each WriteFile call is
  wimpl,         \* the file system each WriteFile call belongs to
  wtmp,          \* the clock reading in its temporary name
  wfd,           \* the file it has open
  werr,          \* what it returned
  seen,          \* what the reader's last ReadFile returned
  sb,            \* the last operation of a sandboxFs: its arguments, the file system, its results
  \* ---- the search tools
  promotions,    \* the iterations each tool stays promoted (0: not promoted)
  spc,           \* where the Execute of a search tool is
  sres,          \* what its search returned
  sleft,         \* the results its loop has still to promote
  sret,          \* the kind of result it returned
  lastTTL,       \* the TTL of the last PromoteTool of each name (0: never promoted)
  ticksSince,    \* the TickPromotions calls since then, counted up to that TTL
  \* ---- call_discovered_tool
  cpc,           \* where the Execute of call_discovered_tool is
  cname,         \* its tool_name
  cargs,         \* its arguments_json, then the parsed arguments
  cret,          \* what it returned
  ran,           \* the executions of tools: the name and the arguments of each
  \* ---- edit_file and append_file
  ed,            \* the last editFile: the file, its arguments, its results
  afile,         \* the file the appends go to: whether it exists, what it holds
  apc,           \* where each appendFile call is
  aarg,          \* the content it appends
  abuf,          \* the newContent it has built
  aret,          \* what it returned
  \* ---- the awaiters of a reader that terminates
  woken,         \* the calls that were parked in their select when readLoop returned
  \* ---- the handshake of one StartAndRegister
  hcfg,          \* its ServerConfig
  hpc,           \* where it is
  notif,         \* the goroutine that posts the notification: "none" | "spawned" | "done"
  sent           \* what went between client and provider, in order

reqVars == <<nextID, pending, chanBuf, pc, outcome, got, callerCtx, wire, afterEOF>>
connVars == <<kind, ctorPc, clientCtx, stdinClosed, childExited, closePc>>
readerVars == <<rd, held, urlWrite, unknownID>>
lineVars == <<currentEvent, dataBuffer, lineLog, handled, nEvents>>
sseRest == <<postReady, readyCloses, postURL, endpointSeen, lineVars>>
sseVars == <<sseRest, postStatus>>

clientVars == <<reqVars, connVars, readerVars, sseVars>>

mgrVars ==
  <<mu, clients, registry, created, cKind, cAlias, closeCalled, mpc, mcfg,
    mclient, mtools, mres, iter, snap>>

execVars == <<exec>>
initVars == <<icfg, todo, cur, iout>>
idVars == <<issued, myId>>
adapterVars == <<adapter, called, callRet, toolResult>>

\* The variables of the file tools.

writeVars == <<names, inodes, ninodes, now, wpc, wimpl, wtmp, wfd, werr, seen>>
searchVars == <<promotions, spc, sres, sleft, sret, lastTTL, ticksSince>>
callVars == <<cpc, cname, cargs, cret, ran>>
appendVars == <<afile, apc, aarg, abuf, aret>>
fileOpVars == <<ed, appendVars>>
toolVars == <<vp, writeVars, sb, searchVars, callVars, fileOpVars>>

\* The variables outside the client, the Manager and its callers.
handshakeVars == <<hcfg, hpc, notif, sent>>
obsVars == <<woken, handshakeVars>>
otherVars == <<idVars, adapterVars, toolVars, obsVars>>

vars == <<clientVars, mgrVars, execVars, initVars, otherVars>>

\* ================================================================ the client

InitClient ==
  /\ kind \in {"stdio", "sse"}
  /\ ctorPc = "connect"
  /\ nextID = 0
  /\ pending = {}
  /\ chanBuf = [r \in Ids |-> <<>>]
  /\ pc = [r \in Ids |-> "none"]
  /\ outcome = [r \in Ids |-> "none"]
  /\ got = [r \in Ids |-> 0]
  /\ callerCtx = [r \in Ids |-> FALSE]
  /\ wire = [r \in Ids |-> "none"]
  /\ afterEOF = [r \in Ids |-> FALSE]
  /\ clientCtx = FALSE
  /\ stdinClosed = FALSE
  /\ childExited = FALSE
  /\ closePc = "idle"
  /\ rd = "off"
  /\ held = <<>>
  /\ urlWrite = ""
  /\ unknownID = 0
  /\ postReady = FALSE
  /\ readyCloses = 0
  /\ postURL = "sse"
  /\ endpointSeen = FALSE
  /\ postStatus = [r \in Ids |-> 0]
  /\ currentEvent = ""
  /\ dataBuffer = <<>>
  /\ lineLog = <<>>
  /\ handled = <<>>
  /\ nEvents = 0
  /\ woken = {}

unchangedMgr == UNCHANGED <<mgrVars, execVars, initVars, otherVars>>

\* ---- helpers of sendRequest and of the readers

\* A lookup that ignores the id: the channel of any pending request.
lookupAny(id) == pending

\* ch, exists := c.pending[id]: the channels the lookup yields (none: !exists).
lookup(id) == IF id \in pending THEN {id} ELSE {}

\* A sendRequest that deletes its slot before each return of the select but not
\* on the early return of a failed write.
exitPendingSelectOnly(rs, oc) == IF oc = "write_failed" THEN pending ELSE pending \ rs

\* A sendRequest whose failed write or POST resets the whole table.
exitPendingResets(rs, oc) ==
  IF oc \in {"write_failed", "post_failed", "post_status"} THEN {} ELSE pending \ rs

\* c.pending after the calls rs have returned oc: each one's deferred
\* delete(c.pending, id) has run.
exitPending(rs, oc) == pending \ rs

\* The cases of sendRequest's select that can proceed.
selectReady(r) ==
  (IF callerCtx[r] THEN {"ctx"} ELSE {})
    \cup (IF clientCtx THEN {"closed"} ELSE {})
    \cup (IF chanBuf[r] # <<>> THEN {"resp"} ELSE {})

\* What sendRequest returns on receiving m from respCh.
respOutcome(m) == IF m.err THEN "rpc_error" ELSE "result"

\* What sendRequest r returns when its select takes case c.
selectOutcome(r, c) ==
  CASE c = "ctx" -> "ctx"
    [] c = "closed" -> "closed"
    [] OTHER -> respOutcome(Head(chanBuf[r]))

\* The reader is about to send into request r's channel.
readerHolds(r) == rd = "send" /\ Head(held).ch = r

\* The buffer of r's channel once r has returned without receiving from it.
keepBuf(r) == IF readerHolds(r) THEN chanBuf[r] ELSE <<>>

\* sendRequest r returns oc, having received the response with id g (0: none);
\* buf is what stays in its channel.
return(r, oc, g, buf) ==
  /\ pc' = [pc EXCEPT ![r] = "done"]
  /\ outcome' = [outcome EXCEPT ![r] = oc]
  /\ got' = [got EXCEPT ![r] = g]
  /\ pending' = exitPending({r}, oc)
  /\ chanBuf' = [chanBuf EXCEPT ![r] = buf]
  /\ callerCtx' = [callerCtx EXCEPT ![r] = FALSE]
  /\ wire' = [wire EXCEPT ![r] = "none"]
  /\ afterEOF' = [afterEOF EXCEPT ![r] = FALSE]

\* The calls parked in their select.
parked == {r \in Ids : pc[r] = "parked"}

\* A Close that marks the client closed without cancelling c.ctx: nobody is woken.
closeWithoutCancel ==
  /\ clientCtx' = clientCtx
  /\ UNCHANGED <<pc, outcome, pending, wire, afterEOF, got, chanBuf, callerCtx>>

\* c.cancel(): c.ctx is done; the calls parked in their select take the
\* <-c.ctx.Done() case and return.
cancel ==
  /\ clientCtx' = TRUE
  /\ pc' = [r \in Ids |-> IF r \in parked THEN "done" ELSE pc[r]]
  /\ outcome' = [r \in Ids |-> IF r \in parked THEN "closed" ELSE outcome[r]]
  /\ pending' = exitPending(parked, "closed")
  /\ wire' = [r \in Ids |-> IF r \in parked THEN "none" ELSE wire[r]]
  /\ afterEOF' = [r \in Ids |-> IF r \in parked THEN FALSE ELSE afterEOF[r]]
  /\ UNCHANGED <<got, chanBuf, callerCtx>>

\* json.Unmarshal of an SSE event's accumulated data: one JSON-RPC object decodes,
\* anything else (nothing, a URL, two objects run together) is an error.
Unmarshal(buf) == IF Len(buf) = 1 /\ buf[1] \in Msg THEN <<buf[1]>> ELSE <<>>

\* resolvePostURL: the accumulated data resolved against the SSE URL.
resolvePostURL(buf) ==
  CASE buf = <<>> -> "sse"
    [] buf = <<UrlTok>> -> "endpoint"
    [] OTHER -> "bad"

\* The values a read of c.postURL can yield: sendRequest reads it without
\* synchronisation, so a read that races resolvePostURL's write may see the old
\* string, the new one, or a torn one.
postURLRead ==
  IF rd = "resolving"
  THEN {postURL, urlWrite} \cup (IF postURL # urlWrite THEN {"torn"} ELSE {})
  ELSE {postURL}

\* ---- constructors

\* NewStdioClient: spawn the child (which fails for a bad command or a cancelled
\* ctx), then start readLoop.
NewStdioClient ==
  /\ kind = "stdio" /\ ctorPc = "connect"
  /\ \E ok \in BOOLEAN :
       IF ok
       THEN ctorPc' = "ok" /\ rd' = "scan"
       ELSE ctorPc' = "fail" /\ rd' = rd
  /\ UNCHANGED <<reqVars, kind, clientCtx, stdinClosed, childExited, closePc,
                 held, urlWrite, unknownID, sseVars>>
  /\ unchangedMgr

\* NewSSEClient up to `go c.readLoop()`: the GET (made under the client's own
\* context); on 200 + text/event-stream it stores the response, closes
\* c.postReady and starts the reader; otherwise it cancels and fails.
NewSSEClient ==
  /\ kind = "sse" /\ ctorPc = "connect"
  /\ \E ok \in BOOLEAN :
       IF ok
       THEN /\ ctorPc' = "select"
            /\ postReady' = TRUE
            /\ readyCloses' = readyCloses + 1
            /\ rd' = "scan"
            /\ clientCtx' = clientCtx
       ELSE /\ ctorPc' = "fail"
            /\ clientCtx' = TRUE
            /\ UNCHANGED <<postReady, readyCloses, rd>>
  /\ UNCHANGED <<reqVars, kind, stdinClosed, childExited, closePc, held, urlWrite,
                 unknownID, postURL, endpointSeen, postStatus, lineVars>>
  /\ unchangedMgr

\* The cases of the constructor's select that can proceed when it is entered,
\* ctxDone telling whether the caller's ctx is cancelled by then. The
\* time.After(15s) timer is created by the select itself and cannot have fired.
ctorReady(ctxDone) ==
  (IF postReady THEN {"ready"} ELSE {}) \cup (IF ctxDone THEN {"ctx"} ELSE {})

\* NewSSEClient's select: <-c.postReady returns the client; <-ctx.Done() closes
\* it (c.Close() is c.cancel()) and fails.
NewSSEClientSelect ==
  /\ kind = "sse" /\ ctorPc = "select"
  /\ \E ctxDone \in BOOLEAN :
       \E c \in ctorReady(ctxDone) :
         IF c = "ready"
         THEN ctorPc' = "ok" /\ clientCtx' = clientCtx
         ELSE ctorPc' = "fail" /\ clientCtx' = TRUE
  /\ UNCHANGED <<reqVars, kind, stdinClosed, childExited, closePc, readerVars,
                 sseVars>>
  /\ unchangedMgr

\* ---- sendRequest

\* A sendRequest that writes the request before it installs its slot: the table
\* is as it was when the request goes out.
installLate(r) == pending

\* c.mu.Lock(); c.pending[id] = respCh; c.mu.Unlock(): c.pending afterwards.
install(r) == pending \cup {r}

\* sendRequest up to the deferred delete being armed: take the next id, marshal
\* (only the stdio client returns marshal errors), install respCh in c.pending.
sendRequestInstall(r) ==
  /\ ctorPc = "ok"
  /\ r = nextID + 1
  /\ nextID' = r
  /\ \E marshalOK \in (IF kind = "stdio" THEN BOOLEAN ELSE {TRUE}) :
       IF marshalOK
       THEN /\ pending' = install(r)
            /\ pc' = [pc EXCEPT ![r] = "installed"]
            /\ afterEOF' = [afterEOF EXCEPT ![r] = (rd = "exited")]
            /\ UNCHANGED outcome
       ELSE /\ pc' = [pc EXCEPT ![r] = "done"]
            /\ outcome' = [outcome EXCEPT ![r] = "marshal"]
            /\ UNCHANGED <<pending, afterEOF>>
  /\ UNCHANGED <<chanBuf, got, callerCtx, wire, connVars, readerVars, sseVars>>
  /\ unchangedMgr

\* c.stdin.Write(reqBytes): it does not look at ctx; it fails once stdin was closed
\* or the child is gone, and the call returns "failed to write request".
stdinWrite(r) ==
  /\ kind = "stdio" /\ pc[r] = "installed"
  /\ IF stdinClosed \/ childExited
     THEN return(r, "write_failed", 0, keepBuf(r))
     ELSE /\ pc' = [pc EXCEPT ![r] = "select"]
          /\ wire' = [wire EXCEPT ![r] = "stdin"]
          /\ UNCHANGED <<pending, chanBuf, outcome, got, callerCtx, afterEOF>>
  /\ UNCHANGED <<nextID, connVars, readerVars, sseVars>>
  /\ unchangedMgr

\* The status codes of the responses to the POST (0: a transport error, no response).
PostStatuses == {200, 202, 204}

\* A sendRequest that takes every 2xx status as success.
acceptedAny2xx(status) == status \in 200..299

\* `resp.StatusCode != http.StatusOK && resp.StatusCode != http.StatusAccepted`
\* is false: the POST was taken.
accepted(status) == status = 200 \/ status = 202

\* The POST of the SSE client: built for c.postURL as read now, sent with the
\* caller's ctx (a cancelled ctx makes Do return the ctx error); a transport error
\* or a status other than 200/202 makes the call return that error.
ssePost(r) ==
  /\ kind = "sse" /\ pc[r] = "installed"
  /\ \E target \in postURLRead :
       \E status \in {0} \cup PostStatuses :
         CASE callerCtx[r] -> return(r, "ctx", 0, keepBuf(r))
           [] ~callerCtx[r] /\ status = 0 -> return(r, "post_failed", 0, keepBuf(r))
           [] ~callerCtx[r] /\ status # 0 /\ ~accepted(status) ->
                return(r, "post_status", 0, keepBuf(r))
           [] OTHER ->
                /\ pc' = [pc EXCEPT ![r] = "select"]
                /\ wire' = [wire EXCEPT ![r] = target]
                /\ UNCHANGED <<pending, chanBuf, outcome, got, callerCtx, afterEOF>>
  /\ UNCHANGED <<nextID, connVars, readerVars, sseVars>>
  /\ unchangedMgr

\* The POST in two steps. First c.httpClient.Do: a transport error makes the call
\* return it; otherwise the request is with the server and the call holds resp.
ssePostDo(r) ==
  /\ kind = "sse" /\ pc[r] = "installed"
  /\ \E target \in postURLRead :
       \E status \in {0} \cup PostStatuses :
         CASE callerCtx[r] ->
                /\ return(r, "ctx", 0, keepBuf(r))
                /\ UNCHANGED postStatus
           [] ~callerCtx[r] /\ status = 0 ->
                /\ return(r, "post_failed", 0, keepBuf(r))
                /\ UNCHANGED postStatus
           [] OTHER ->
                /\ pc' = [pc EXCEPT ![r] = "posted"]
                /\ wire' = [wire EXCEPT ![r] = target]
                /\ postStatus' = [postStatus EXCEPT ![r] = status]
                /\ UNCHANGED <<pending, chanBuf, outcome, got, callerCtx, afterEOF>>
  /\ UNCHANGED <<nextID, connVars, readerVars, sseRest>>
  /\ unchangedMgr

\* Then the check of resp.StatusCode: on 200 or 202 the call goes on to its
\* select, on any other status it returns "POST request failed with status".
ssePostStatus(r) ==
  /\ kind = "sse" /\ pc[r] = "posted"
  /\ IF accepted(postStatus[r])
     THEN /\ pc' = [pc EXCEPT ![r] = "select"]
          /\ UNCHANGED <<pending, chanBuf, outcome, got, callerCtx, wire, afterEOF>>
     ELSE return(r, "post_status", 0, keepBuf(r))
  /\ postStatus' = [postStatus EXCEPT ![r] = 0]
  /\ UNCHANGED <<nextID, connVars, readerVars, sseRest>>
  /\ unchangedMgr

\* sendRequest's select is entered: one of the ready cases is taken and the call
\* returns, or none is ready and the call parks.
sendRequestSelect(r) ==
  /\ pc[r] = "select"
  /\ IF selectReady(r) = {}
     THEN /\ pc' = [pc EXCEPT ![r] = "parked"]
          /\ UNCHANGED <<pending, chanBuf, outcome, got, callerCtx, wire, afterEOF>>
     ELSE \E c \in selectReady(r) :
            IF c = "resp"
            THEN return(r, selectOutcome(r, c), Head(chanBuf[r]).id, <<>>)
            ELSE return(r, selectOutcome(r, c), 0, keepBuf(r))
  /\ UNCHANGED <<nextID, connVars, readerVars, sseVars>>
  /\ unchangedMgr

\* The caller cancels the ctx of in-flight request r; a call parked in its select
\* takes <-ctx.Done() and returns ctx.Err().
cancelCallerCtx(r) ==
  /\ pc[r] \in {"installed", "posted", "select", "parked"}
  /\ ~callerCtx[r]
  /\ IF pc[r] = "parked"
     THEN return(r, "ctx", 0, <<>>)
     ELSE /\ callerCtx' = [callerCtx EXCEPT ![r] = TRUE]
          /\ UNCHANGED <<pending, chanBuf, pc, outcome, got, wire, afterEOF>>
  /\ UNCHANGED <<nextID, connVars, readerVars, sseVars>>
  /\ unchangedMgr

\* ---- Close

\* Close: c.cancel(). It is all of SSEClient.Close.
CloseCancel ==
  /\ ctorPc = "ok" /\ closePc = "idle"
  /\ cancel
  /\ closePc' = IF kind = "sse" THEN "done" ELSE "cancelled"
  /\ UNCHANGED <<nextID, kind, ctorPc, stdinClosed, childExited, readerVars, sseVars>>
  /\ unchangedMgr

\* StdioClient.Close: c.stdin.Close().
CloseStdin ==
  /\ kind = "stdio" /\ closePc = "cancelled"
  /\ stdinClosed' = TRUE
  /\ closePc' = "stdin"
  /\ UNCHANGED <<reqVars, kind, ctorPc, clientCtx, childExited, readerVars, sseVars>>
  /\ unchangedMgr

\* StdioClient.Close: c.cmd.Wait() returns once the child has exited.
CloseWait ==
  /\ kind = "stdio" /\ closePc = "stdin"
  /\ childExited
  /\ closePc' = "done"
  /\ UNCHANGED <<reqVars, kind, ctorPc, clientCtx, stdinClosed, childExited,
                 readerVars, sseVars>>
  /\ unchangedMgr

\* The subprocess exits (on its own, or killed through the exec context).
childExit ==
  /\ kind = "stdio" /\ ctorPc = "ok" /\ ~childExited
  /\ childExited' = TRUE
  /\ UNCHANGED <<reqVars, kind, ctorPc, clientCtx, stdinClosed, closePc, readerVars,
                 sseVars>>
  /\ unchangedMgr

\* ---- the readers

\* `ch, exists := c.pending[id]` followed by `if exists { ch <- &msg }`: the reader
\* goes on to send m into the channel it found, or drops m.
route(m) ==
  IF lookup(m.id) = {}
  THEN /\ unknownID' = m.id
       /\ UNCHANGED <<rd, held>>
  ELSE \E ch \in lookup(m.id) :
         /\ rd' = "send"
         /\ held' = <<[ch |-> ch, msg |-> m]>>
         /\ UNCHANGED unknownID

\* StdioClient.readLoop, one line of stdout: a line that is not JSON and a
\* notification are skipped, a response is routed by its id.
readLoopStdio ==
  /\ kind = "stdio" /\ rd = "scan"
  /\ \E f \in StdioFrames :
       IF f.f = "resp" THEN route(f.msg) ELSE UNCHANGED <<rd, held, unknownID>>
  /\ UNCHANGED <<reqVars, connVars, urlWrite, sseVars>>
  /\ unchangedMgr

\* The reader's `ch <- &msg`: handed to the call parked on ch (which returns with
\* it), or put in ch's buffer when it is empty; with a full buffer the send blocks.
readLoopSend ==
  /\ rd = "send"
  /\ LET ch == Head(held).ch
         m == Head(held).msg
     IN CASE pc[ch] = "parked" -> return(ch, respOutcome(m), m.id, <<>>)
          [] pc[ch] = "done" ->
               /\ chanBuf[ch] = <<>>
               /\ UNCHANGED reqVars
          [] OTHER ->
               /\ chanBuf[ch] = <<>>
               /\ chanBuf' = [chanBuf EXCEPT ![ch] = <<m>>]
               /\ UNCHANGED <<pending, pc, outcome, got, callerCtx, wire, afterEOF>>
  /\ rd' = "scan"
  /\ held' = <<>>
  /\ UNCHANGED <<nextID, connVars, urlWrite, unknownID, sseVars>>
  /\ unchangedMgr

\* scanner.Scan() returns false (EOF or a read error): readLoop returns and its
\* deferred c.cancel() runs.
readLoopExit ==
  /\ rd = "scan"
  /\ rd' = "exited"
  /\ cancel
  /\ UNCHANGED <<nextID, kind, ctorPc, stdinClosed, childExited, closePc, held,
                 urlWrite, unknownID, sseVars>>
  /\ unchangedMgr

\* A readLoop that returns without the deferred c.cancel(): c.ctx stays as it
\* is and nobody is woken.
readLoopReturnNoCancel ==
  /\ rd = "scan"
  /\ rd' = "exited"
  /\ closeWithoutCancel
  /\ woken' = parked
  /\ UNCHANGED <<nextID, kind, ctorPc, stdinClosed, childExited, closePc, held,
                 urlWrite, unknownID, sseVars>>
  /\ UNCHANGED <<mgrVars, execVars, initVars, idVars, adapterVars, toolVars,
                 handshakeVars>>

\* The same return of readLoop (scanner.Scan() false, then the deferred
\* c.cancel()), the calls that were parked in their select being noted.
readLoopReturn ==
  /\ rd = "scan"
  /\ rd' = "exited"
  /\ cancel
  /\ woken' = parked
  /\ UNCHANGED <<nextID, kind, ctorPc, stdinClosed, childExited, closePc, held,
                 urlWrite, unknownID, sseVars>>
  /\ UNCHANGED <<mgrVars, execVars, initVars, idVars, adapterVars, toolVars,
                 handshakeVars>>

\* A reader whose data: line replaces the buffer instead of adding to it.
scanLineReplace(st, ln) ==
  CASE ln.l = "event" -> <<ln.name, st[2]>>
    [] ln.l = "data" -> <<st[1], <<ln.tok>>>>
    [] OTHER -> st

\* SSEClient.readLoop, one non-empty line: st is <<currentEvent, dataBuffer>>.
scanLine(st, ln) ==
  CASE ln.l = "event" -> <<ln.name, st[2]>>
    [] ln.l = "data" -> <<st[1], Append(st[2], ln.tok)>>
    [] OTHER -> st

\* The reader's state after the lines ls, from the state st.
RECURSIVE scanLines(_, _)
scanLines(st, ls) ==
  IF ls = <<>> THEN st ELSE scanLines(scanLine(st, Head(ls)), Tail(ls))

\* SSEClient.handleMessage: decode, and route a decoded response by its id.
handleMessage(buf) ==
  IF Unmarshal(buf) = <<>>
  THEN UNCHANGED <<rd, held, unknownID>>
  ELSE route(Head(Unmarshal(buf)))

\* SSEClient.readLoop, one event: its lines and the empty line that ends it. An
\* `endpoint` event goes on to resolvePostURL; any other event with data is handed
\* to handleMessage.
readLoopSSE ==
  /\ kind = "sse" /\ rd = "scan"
  /\ \E ev \in EventLines :
       LET st == scanLines(<<"", <<>>>>, ev)
       IN IF st[1] = "endpoint"
          THEN /\ rd' = "resolving"
               /\ urlWrite' = resolvePostURL(st[2])
               /\ UNCHANGED <<held, unknownID>>
          ELSE /\ IF st[2] # <<>> THEN handleMessage(st[2])
                  ELSE UNCHANGED <<rd, held, unknownID>>
               /\ UNCHANGED urlWrite
  /\ UNCHANGED <<reqVars, connVars, sseVars>>
  /\ unchangedMgr

\* resolvePostURL's write of c.postURL completes, then the guarded close of
\* c.postReady: closed only if it is not closed yet.
readLoopEndpoint ==
  /\ rd = "resolving"
  /\ postURL' = urlWrite
  /\ endpointSeen' = TRUE
  /\ IF postReady
     THEN UNCHANGED <<postReady, readyCloses>>
     ELSE postReady' = TRUE /\ readyCloses' = readyCloses + 1
  /\ rd' = "scan"
  /\ urlWrite' = ""
  /\ UNCHANGED <<reqVars, connVars, held, unknownID, postStatus, lineVars>>
  /\ unchangedMgr

\* ---- SSEClient.readLoop, line by line

\* The lines the line-by-line reader is fed, other than the empty line.
ScanLines ==
  { [l |-> "other"],
    [l |-> "event", name |-> "endpoint"],
    [l |-> "event", name |-> "message"],
    [l |-> "data", tok |-> UrlTok],
    [l |-> "data", tok |-> [id |-> 1, err |-> FALSE]] }

\* One iteration of the loop on a non-empty line: an event: line, a data: line,
\* or a line with neither prefix, which is ignored.
readLoopLine ==
  /\ kind = "sse" /\ rd = "scan"
  /\ nEvents < MaxEvents /\ Len(lineLog) < MaxEventLines
  /\ \E ln \in ScanLines :
       /\ currentEvent' = scanLine(<<currentEvent, dataBuffer>>, ln)[1]
       /\ dataBuffer' = scanLine(<<currentEvent, dataBuffer>>, ln)[2]
       /\ lineLog' = Append(lineLog, ln)
  /\ UNCHANGED <<reqVars, connVars, readerVars, postReady, readyCloses, postURL,
                 endpointSeen, postStatus, handled, nEvents>>
  /\ unchangedMgr

\* One iteration of the loop on the empty line: the event ends. An `endpoint`
\* event goes on to resolvePostURL, any other event with data is handed to
\* handleMessage; then currentEvent and dataBuffer are reset.
readLoopEmptyLine ==
  /\ kind = "sse" /\ rd = "scan"
  /\ nEvents < MaxEvents
  /\ IF currentEvent = "endpoint"
     THEN /\ rd' = "resolving"
          /\ urlWrite' = resolvePostURL(dataBuffer)
          /\ UNCHANGED <<held, unknownID, handled>>
     ELSE IF dataBuffer # <<>>
          THEN /\ handleMessage(dataBuffer)
               /\ handled' = Append(handled, dataBuffer)
               /\ UNCHANGED urlWrite
          ELSE UNCHANGED <<readerVars, handled>>
  /\ currentEvent' = ""
  /\ dataBuffer' = <<>>
  /\ lineLog' = <<>>
  /\ nEvents' = nEvents + 1
  /\ UNCHANGED <<reqVars, connVars, postReady, readyCloses, postURL, endpointSeen,
                 postStatus>>
  /\ unchangedMgr

\* The SSE client's constructor and its reader, line by line.
NextSSE ==
  \/ NewSSEClient
  \/ NewSSEClientSelect
  \/ readLoopLine
  \/ readLoopEmptyLine
  \/ readLoopEndpoint

\* The SSE client with the POST of sendRequest in its two steps.
NextPost ==
  \/ NewSSEClient
  \/ NewSSEClientSelect
  \/ \E r \in Ids : sendRequestInstall(r)
  \/ \E r \in Ids : ssePostDo(r)
  \/ \E r \in Ids : ssePostStatus(r)
  \/ \E r \in Ids : sendRequestSelect(r)
  \/ readLoopSSE
  \/ readLoopSend
  \/ readLoopEndpoint

\* A sendRequest that is called once Close has returned.
sendRequestAfterClose(r) ==
  /\ closePc = "done"
  /\ sendRequestInstall(r)

\* The SSE client whose requests are all made after Close has returned.
NextClosed ==
  \/ NewSSEClient
  \/ NewSSEClientSelect
  \/ CloseCancel
  \/ \E r \in Ids : sendRequestAfterClose(r)
  \/ \E r \in Ids : ssePost(r)
  \/ \E r \in Ids : sendRequestSelect(r)
  \/ readLoopSSE
  \/ readLoopSend
  \/ readLoopEndpoint
  \/ readLoopExit

\* The client whose caller never cancels and on which Close is never called.
NextDeadReader ==
  \/ NewStdioClient
  \/ NewSSEClient
  \/ NewSSEClientSelect
  \/ \E r \in Ids : sendRequestInstall(r)
  \/ \E r \in Ids : stdinWrite(r)
  \/ \E r \in Ids : ssePost(r)
  \/ \E r \in Ids : sendRequestSelect(r)
  \/ childExit
  \/ readLoopStdio
  \/ readLoopSend
  \/ readLoopReturn
  \/ readLoopSSE
  \/ readLoopEndpoint

NextClient ==
  \/ NewStdioClient
  \/ NewSSEClient
  \/ NewSSEClientSelect
  \/ \E r \in Ids : sendRequestInstall(r)
  \/ \E r \in Ids : stdinWrite(r)
  \/ \E r \in Ids : ssePost(r)
  \/ \E r \in Ids : sendRequestSelect(r)
  \/ \E r \in Ids : cancelCallerCtx(r)
  \/ CloseCancel
  \/ CloseStdin
  \/ CloseWait
  \/ childExit
  \/ readLoopStdio
  \/ readLoopSend
  \/ readLoopExit
  \/ readLoopSSE
  \/ readLoopEndpoint

\* =============================================================== the Manager

\* Provider aliases (cfg.Name) and the tool names providers export.
Aliases == {<<"a">>, <<"a", "_", "b">>}
ToolNames == {<<"c">>, <<"b", "_", "c">>}
Types == {"stdio", "sse", "http"}

\* cfg.Type as configured: one of the three, or something else; cfg.Cmd: absent
\* or a command (only a subprocess has one).
CfgTypes == Types \cup {"grpc"}
Cmds == {"", "npx"}
Configs ==
  {cfg \in [Name : Aliases, Type : CfgTypes, Cmd : Cmds] :
     cfg.Type \in {"sse", "http"} => cfg.Cmd = ""}

\* The client StartAndRegister builds for cfg: "sse" and "http" have their
\* branch, every other type falls in the else branch and gets a StdioClient.
clientKind(cfg) ==
  IF cfg.Type = "sse" THEN "sse"
  ELSE IF cfg.Type = "http" THEN "http"
  ELSE "stdio"

\* Whether the construction can succeed: NewHTTPClient cannot fail, NewSSEClient
\* fails when the GET does, NewStdioClient when cmd.Start() does, which it always
\* does for an empty command.
connectResults(cfg) ==
  CASE clientKind(cfg) = "http" -> {TRUE}
    [] clientKind(cfg) = "sse" -> BOOLEAN
    [] OTHER -> IF cfg.Cmd = "" THEN {FALSE} ELSE BOOLEAN

\* The lists a tools/list can return.
ToolLists == {<<>>, <<<<"c">>>>, <<<<"c">>, <<"b", "_", "c">>>>, <<<<"b", "_", "c">>>>}

\* fmt.Sprintf("%s_%s", cfg.Name, originalName)
Sprintf(alias, originalName) == alias \o <<"_">> \o originalName

RegNames == {Sprintf(a, t) : a \in Aliases, t \in ToolNames}

\* The ServerConfig of a caller that is in no StartAndRegister call.
NoConfig == [Name |-> <<>>, Type |-> "", Cmd |-> ""]

InitMgr ==
  /\ mu = 0
  /\ clients = [a \in Aliases |-> 0]
  /\ registry = [n \in RegNames |-> 0]
  /\ created = 0
  /\ cKind = [c \in ClientIds |-> "none"]
  /\ cAlias = [c \in ClientIds |-> <<>>]
  /\ closeCalled = {}
  /\ mpc = [g \in Callers |-> "idle"]
  /\ mcfg = [g \in Callers |-> NoConfig]
  /\ mclient = [g \in Callers |-> 0]
  /\ mtools = [g \in Callers |-> <<>>]
  /\ mres = [g \in Callers |-> "none"]
  /\ iter = {}
  /\ snap = {}

unchangedClient == UNCHANGED <<clientVars, execVars, initVars, otherVars>>

\* ToolRegistry.Register: inserts the tool under its name; a name that is already
\* registered keeps its entry.
Register(name, c) ==
  IF registry[name] # 0 THEN registry ELSE [registry EXCEPT ![name] = c]

\* A check that never finds the alias.
existsNever(alias) == FALSE

\* _, exists := m.clients[cfg.Name]
exists(alias) == clients[alias] # 0

\* An error path that returns without closing the client.
CloseSkipped(c) == closeCalled

\* client.Close(): the clients Close() has been called on.
Close(c) == closeCalled \cup {c}

\* The callers that are in StartAndRegister and have not built their client yet.
starting == {g \in Callers : mpc[g] \in {"lock", "create"}}

\* A caller enters StartAndRegister(ctx, cfg) and waits for m.mu (as long as the
\* calls under way leave a client to build within MaxClients).
StartAndRegisterCall(g) ==
  /\ mpc[g] = "idle" /\ created + Cardinality(starting) < MaxClients
  /\ \E cfg \in Configs : mcfg' = [mcfg EXCEPT ![g] = cfg]
  /\ mpc' = [mpc EXCEPT ![g] = "lock"]
  /\ mres' = [mres EXCEPT ![g] = "none"]
  /\ UNCHANGED <<mu, clients, registry, created, cKind, cAlias, closeCalled,
                 mclient, mtools, iter, snap>>
  /\ unchangedClient

\* StartAndRegister: m.mu.Lock() and the check of the alias; an alias that is in
\* m.clients returns the "already running" error (the deferred Unlock runs).
StartAndRegisterLock(g) ==
  /\ mpc[g] = "lock" /\ mu = 0
  /\ IF exists(mcfg[g].Name)
     THEN /\ mres' = [mres EXCEPT ![g] = "exists"]
          /\ mpc' = [mpc EXCEPT ![g] = "idle"]
          /\ mcfg' = [mcfg EXCEPT ![g] = NoConfig]
          /\ mu' = 0
     ELSE /\ mres' = mres
          /\ mpc' = [mpc EXCEPT ![g] = "create"]
          /\ mcfg' = mcfg
          /\ mu' = g
  /\ UNCHANGED <<clients, registry, created, cKind, cAlias, closeCalled,
                 mclient, mtools, iter, snap>>
  /\ unchangedClient

\* StartAndRegister: the client is built by cfg.Type; a failed construction
\* returns the error.
StartAndRegisterCreate(g) ==
  /\ mpc[g] = "create"
  /\ \E ok \in connectResults(mcfg[g]) :
       IF ok
       THEN /\ created' = created + 1
            /\ mclient' = [mclient EXCEPT ![g] = created + 1]
            /\ cKind' = [cKind EXCEPT ![created + 1] = clientKind(mcfg[g])]
            /\ cAlias' = [cAlias EXCEPT ![created + 1] = mcfg[g].Name]
            /\ mpc' = [mpc EXCEPT ![g] = "initialize"]
            /\ UNCHANGED <<mres, mu, mcfg>>
       ELSE /\ mres' = [mres EXCEPT ![g] = "connect"]
            /\ mpc' = [mpc EXCEPT ![g] = "idle"]
            /\ mcfg' = [mcfg EXCEPT ![g] = NoConfig]
            /\ mu' = 0
            /\ UNCHANGED <<created, mclient, cKind, cAlias>>
  /\ UNCHANGED <<clients, registry, closeCalled, mtools, iter, snap>>
  /\ unchangedClient

\* StartAndRegister: client.Initialize(ctx); on error client.Close() and return.
StartAndRegisterInitialize(g) ==
  /\ mpc[g] = "initialize"
  /\ \E ok \in BOOLEAN :
       IF ok
       THEN /\ mpc' = [mpc EXCEPT ![g] = "list"]
            /\ UNCHANGED <<closeCalled, mres, mu, mcfg, mclient>>
       ELSE /\ closeCalled' = Close(mclient[g])
            /\ mres' = [mres EXCEPT ![g] = "initialize"]
            /\ mpc' = [mpc EXCEPT ![g] = "idle"]
            /\ mcfg' = [mcfg EXCEPT ![g] = NoConfig]
            /\ mclient' = [mclient EXCEPT ![g] = 0]
            /\ mu' = 0
  /\ UNCHANGED <<clients, registry, created, cKind, cAlias, mtools, iter, snap>>
  /\ unchangedClient

\* StartAndRegister: client.ListTools(ctx); on error client.Close() and return.
StartAndRegisterListTools(g) ==
  /\ mpc[g] = "list"
  /\ \E ok \in BOOLEAN, tl \in ToolLists :
       IF ok
       THEN /\ mtools' = [mtools EXCEPT ![g] = tl]
            /\ mpc' = [mpc EXCEPT ![g] = "register"]
            /\ UNCHANGED <<closeCalled, mres, mu, mcfg, mclient>>
       ELSE /\ closeCalled' = Close(mclient[g])
            /\ mres' = [mres EXCEPT ![g] = "list"]
            /\ mpc' = [mpc EXCEPT ![g] = "idle"]
            /\ mcfg' = [mcfg EXCEPT ![g] = NoConfig]
            /\ mclient' = [mclient EXCEPT ![g] = 0]
            /\ mu' = 0
            /\ mtools' = mtools
  /\ UNCHANGED <<clients, registry, created, cKind, cAlias, iter, snap>>
  /\ unchangedClient

\* A loop that runs over toolsList.Tools from its end.
StartAndRegisterRegisterBackwards(g) ==
  /\ mpc[g] = "register" /\ mtools[g] # <<>>
  /\ registry' = Register(Sprintf(mcfg[g].Name, mtools[g][Len(mtools[g])]), mclient[g])
  /\ mtools' = [mtools EXCEPT ![g] = SubSeq(@, 1, Len(@) - 1)]
  /\ UNCHANGED <<mu, clients, created, cKind, cAlias, closeCalled, mpc, mcfg,
                 mclient, mres, iter, snap>>
  /\ unchangedClient

\* StartAndRegister: one iteration of the loop over toolsList.Tools.
StartAndRegisterRegister(g) ==
  /\ mpc[g] = "register" /\ mtools[g] # <<>>
  /\ registry' = Register(Sprintf(mcfg[g].Name, Head(mtools[g])), mclient[g])
  /\ mtools' = [mtools EXCEPT ![g] = Tail(@)]
  /\ UNCHANGED <<mu, clients, created, cKind, cAlias, closeCalled, mpc, mcfg,
                 mclient, mres, iter, snap>>
  /\ unchangedClient

\* StartAndRegister: m.clients[cfg.Name] = client; return nil.
StartAndRegisterStore(g) ==
  /\ mpc[g] = "register" /\ mtools[g] = <<>>
  /\ clients' = [clients EXCEPT ![mcfg[g].Name] = mclient[g]]
  /\ mres' = [mres EXCEPT ![g] = "ok"]
  /\ mpc' = [mpc EXCEPT ![g] = "idle"]
  /\ mcfg' = [mcfg EXCEPT ![g] = NoConfig]
  /\ mclient' = [mclient EXCEPT ![g] = 0]
  /\ mu' = 0
  /\ UNCHANGED <<registry, created, cKind, cAlias, closeCalled, mtools, iter, snap>>
  /\ unchangedClient

\* A caller enters Shutdown() and waits for m.mu.
ShutdownCall(g) ==
  /\ mpc[g] = "idle"
  /\ mpc' = [mpc EXCEPT ![g] = "slock"]
  /\ mres' = [mres EXCEPT ![g] = "none"]
  /\ UNCHANGED <<mu, clients, registry, created, cKind, cAlias, closeCalled, mcfg,
                 mclient, mtools, iter, snap>>
  /\ unchangedClient

\* Shutdown: m.mu.Lock(); the range over m.clients starts.
ShutdownLock(g) ==
  /\ mpc[g] = "slock" /\ mu = 0
  /\ mu' = g
  /\ iter' = {a \in Aliases : clients[a] # 0}
  /\ snap' = {clients[a] : a \in {b \in Aliases : clients[b] # 0}}
  /\ mpc' = [mpc EXCEPT ![g] = "range"]
  /\ UNCHANGED <<clients, registry, created, cKind, cAlias, closeCalled, mcfg,
                 mclient, mtools, mres>>
  /\ unchangedClient

\* A range that closes each client and leaves its entry in the map.
ShutdownRangeNoDelete(g) ==
  /\ mpc[g] = "range"
  /\ \E name \in iter :
       /\ closeCalled' = Close(clients[name])
       /\ iter' = iter \ {name}
  /\ UNCHANGED <<mu, clients, registry, created, cKind, cAlias, mpc, mcfg, mclient,
                 mtools, mres, snap>>
  /\ unchangedClient

\* A range that deletes each entry of the map without closing its client.
ShutdownRangeDeleteOnly(g) ==
  /\ mpc[g] = "range"
  /\ \E name \in iter :
       /\ closeCalled' = closeCalled
       /\ clients' = [clients EXCEPT ![name] = 0]
       /\ iter' = iter \ {name}
  /\ UNCHANGED <<mu, registry, created, cKind, cAlias, mpc, mcfg, mclient, mtools,
                 mres, snap>>
  /\ unchangedClient

\* Shutdown, one iteration of the range: client.Close(); delete(m.clients, name).
ShutdownRange(g) ==
  /\ mpc[g] = "range"
  /\ \E name \in iter :
       /\ closeCalled' = Close(clients[name])
       /\ clients' = [clients EXCEPT ![name] = 0]
       /\ iter' = iter \ {name}
  /\ UNCHANGED <<mu, registry, created, cKind, cAlias, mpc, mcfg, mclient, mtools,
                 mres, snap>>
  /\ unchangedClient

\* Shutdown returns once the range is over (the deferred Unlock runs).
ShutdownReturn(g) ==
  /\ mpc[g] = "range" /\ iter = {}
  /\ mu' = 0
  /\ mres' = [mres EXCEPT ![g] = "shutdown"]
  /\ mpc' = [mpc EXCEPT ![g] = "idle"]
  /\ snap' = {}
  /\ UNCHANGED <<clients, registry, created, cKind, cAlias, closeCalled, mcfg,
                 mclient, mtools, iter>>
  /\ unchangedClient

\* ---- the handshake of StartAndRegister: Initialize, then ListTools

InitHandshake ==
  /\ hcfg = NoConfig
  /\ hpc = "idle"
  /\ notif = "none"
  /\ sent = <<>>

unchangedForHandshake ==
  UNCHANGED <<clientVars, mgrVars, execVars, initVars, idVars, adapterVars,
              toolVars, woken>>

\* What the client sent and received so far, with one more event.
sentThen(e) == Append(sent, e)

\* StartAndRegister(ctx, cfg) has built its client (of the kind cfg.Type asks
\* for) and calls client.Initialize(ctx).
handshakeStart ==
  /\ hpc = "idle"
  /\ \E cfg \in {c \in Configs : TRUE \in connectResults(c)} : hcfg' = cfg
  /\ hpc' = "initialize"
  /\ UNCHANGED <<notif, sent>>
  /\ unchangedForHandshake

\* Initialize: c.sendRequest(ctx, "initialize", params) transmits the request
\* (or fails to, and Initialize returns the error).
InitializeSend ==
  /\ hpc = "initialize"
  /\ \E ok \in BOOLEAN :
       IF ok THEN hpc' = "initializing" /\ sent' = sentThen("initialize")
             ELSE hpc' = "failed" /\ sent' = sent
  /\ UNCHANGED <<hcfg, notif>>
  /\ unchangedForHandshake

\* Initialize: sendRequest returns the response, or an error (an rpc error, the
\* ctx, the client closed), on which Initialize returns it.
InitializeResponse ==
  /\ hpc = "initializing"
  /\ \E ok \in BOOLEAN :
       IF ok THEN hpc' = "notify" /\ sent' = sentThen("initialize response")
             ELSE hpc' = "failed" /\ sent' = sent
  /\ UNCHANGED <<hcfg, notif>>
  /\ unchangedForHandshake

\* Initialize, after the response. StdioClient: c.stdin.Write of the
\* notification, whose error Initialize returns. SSEClient and HTTPClient: the
\* POST is built and handed to a new goroutine, and Initialize returns nil.
InitializeNotify ==
  /\ hpc = "notify"
  /\ IF clientKind(hcfg) = "stdio"
     THEN /\ \E ok \in BOOLEAN :
               IF ok THEN hpc' = "list" /\ sent' = sentThen("notifications/initialized")
                     ELSE hpc' = "failed" /\ sent' = sent
          /\ UNCHANGED notif
     ELSE /\ notif' = "spawned"
          /\ hpc' = "list"
          /\ UNCHANGED sent
  /\ UNCHANGED hcfg
  /\ unchangedForHandshake

\* The goroutine of the notification: c.httpClient.Do(req), which posts it or
\* fails; nobody waits for it.
notifyDo ==
  /\ notif = "spawned"
  /\ \E ok \in BOOLEAN :
       sent' = IF ok THEN sentThen("notifications/initialized") ELSE sent
  /\ notif' = "done"
  /\ UNCHANGED <<hcfg, hpc>>
  /\ unchangedForHandshake

\* ListTools: c.sendRequest(ctx, "tools/list", ...) transmits the request, or
\* fails to.
ListToolsSend ==
  /\ hpc = "list"
  /\ \E ok \in BOOLEAN :
       IF ok THEN hpc' = "listing" /\ sent' = sentThen("tools/list")
             ELSE hpc' = "failed" /\ sent' = sent
  /\ UNCHANGED <<hcfg, notif>>
  /\ unchangedForHandshake

\* ListTools returns the response, or an error.
ListToolsResponse ==
  /\ hpc = "listing"
  /\ \E ok \in BOOLEAN :
       IF ok THEN hpc' = "listed" /\ sent' = sentThen("tools/list response")
             ELSE hpc' = "failed" /\ sent' = sent
  /\ UNCHANGED <<hcfg, notif>>
  /\ unchangedForHandshake

NextHandshake ==
  \/ handshakeStart
  \/ InitializeSend
  \/ InitializeResponse
  \/ InitializeNotify
  \/ notifyDo
  \/ ListToolsSend
  \/ ListToolsResponse

\* ---- Manager.InitFromConfig

\* The entries of cfg.Servers (config.MCPConfig): type and command of a server.
ServerConfigs == {[Type |-> cfg.Type, Cmd |-> cfg.Cmd] : cfg \in Configs}

\* The maps cfg.Servers can be: name -> server config.
ServerMaps == UNION {[S -> ServerConfigs] : S \in SUBSET Aliases}

NoInit == [by |-> 0, servers |-> <<>>]

InitInitFromConfig ==
  /\ icfg = NoInit
  /\ todo = {}
  /\ cur = <<>>
  /\ iout = <<>>

\* A caller enters InitFromConfig(ctx, cfg); the range over cfg.Servers starts
\* (as long as its servers leave the clients to build within MaxClients).
InitFromConfigCall(g) ==
  /\ mpc[g] = "idle" /\ icfg.by = 0
  /\ \E servers \in ServerMaps :
       /\ created + Cardinality(DOMAIN servers) <= MaxClients
       /\ icfg' = [by |-> g, servers |-> servers]
       /\ todo' = DOMAIN servers
  /\ UNCHANGED <<cur, iout, clientVars, mgrVars, execVars, otherVars>>

\* InitFromConfig, one iteration of the range (in map order, which is any order):
\* m.StartAndRegister is called with the server's config.
InitFromConfigRange(g) ==
  /\ icfg.by = g /\ mpc[g] = "idle" /\ cur = <<>>
  /\ \E name \in todo :
       /\ todo' = todo \ {name}
       /\ cur' = name
       /\ mcfg' = [mcfg EXCEPT ![g] = [Name |-> name,
                                       Type |-> icfg.servers[name].Type,
                                       Cmd |-> icfg.servers[name].Cmd]]
  /\ mpc' = [mpc EXCEPT ![g] = "lock"]
  /\ mres' = [mres EXCEPT ![g] = "none"]
  /\ UNCHANGED <<icfg, iout, mu, clients, registry, created, cKind, cAlias,
                 closeCalled, mclient, mtools, iter, snap, clientVars, execVars,
                 otherVars>>

\* An InitFromConfig that gives up at the first provider that fails to start.
InitFromConfigAbort(g) ==
  /\ icfg.by = g /\ mpc[g] = "idle" /\ cur # <<>>
  /\ iout' = Append(iout, [name |-> cur, res |-> mres[g]])
  /\ cur' = <<>>
  /\ todo' = IF mres[g] = "ok" THEN todo ELSE {}
  /\ UNCHANGED <<icfg, clientVars, mgrVars, execVars, otherVars>>

\* InitFromConfig after StartAndRegister returned: an error is logged and the
\* range continues; so it does after a success.
InitFromConfigContinue(g) ==
  /\ icfg.by = g /\ mpc[g] = "idle" /\ cur # <<>>
  /\ iout' = Append(iout, [name |-> cur, res |-> mres[g]])
  /\ cur' = <<>>
  /\ UNCHANGED <<icfg, todo, clientVars, mgrVars, execVars, otherVars>>

\* InitFromConfig returns once the range is over.
InitFromConfigReturn(g) ==
  /\ icfg.by = g /\ mpc[g] = "idle" /\ cur = <<>> /\ todo = {}
  /\ icfg' = NoInit
  /\ iout' = <<>>
  /\ UNCHANGED <<todo, cur, clientVars, mgrVars, execVars, otherVars>>

\* InitFromConfig and the StartAndRegister calls it makes.
NextInit ==
  \/ \E g \in Callers : InitFromConfigCall(g)
  \/ \E g \in Callers : InitFromConfigRange(g)
  \/ \E g \in Callers : InitFromConfigContinue(g)
  \/ \E g \in Callers : InitFromConfigReturn(g)
  \/ \E g \in Callers : StartAndRegisterLock(g)
  \/ \E g \in Callers : StartAndRegisterCreate(g)
  \/ \E g \in Callers : StartAndRegisterInitialize(g)
  \/ \E g \in Callers : StartAndRegisterListTools(g)
  \/ \E g \in Callers : StartAndRegisterRegister(g)
  \/ \E g \in Callers : StartAndRegisterStore(g)

\* ---- MCPToolAdapter.Execute

\* Strings are sequences of characters (or of pieces standing for several).
Texts == {<<>>, <<"x">>, <<"y">>}

\* MCPContentBlock, and the Content of a CallToolResult.
Blocks == [Type : {"text", "image"}, Text : Texts]
Contents == UNION {[1..n -> Blocks] : n \in 0..MaxBlocks}

\* What client.CallTool returns: an error (of the transport, or an RPC error), or
\* a CallToolResult.
Errs == {"EOF", "rpc error"}
CallRets ==
  [err : Errs, IsError : {FALSE}, Content : {<<>>}]
    \cup [err : {""}, IsError : BOOLEAN, Content : Contents]

\* tools.ErrorResult(msg), .WithError(err) and tools.NewToolResult(text).
ErrorResult(msg) == [ForLLM |-> msg, IsError |-> TRUE, Err |-> ""]
WithError(res, err) == [res EXCEPT !.Err = err]
NewToolResult(text) == [ForLLM |-> text, IsError |-> FALSE, Err |-> ""]

\* An extraction that takes the text of every block, whatever its type.
extractAllContent(blocks) ==
  LET RECURSIVE walk(_)
      walk(bs) == IF bs = <<>> THEN <<>> ELSE Head(bs).Text \o <<"\n">> \o walk(Tail(bs))
  IN walk(blocks)

\* extractTextContent: text += block.Text + "\n" for each block of type "text".
extractTextContent(blocks) ==
  LET RECURSIVE walk(_)
      walk(bs) ==
        IF bs = <<>> THEN <<>>
        ELSE (IF Head(bs).Type = "text" THEN Head(bs).Text \o <<"\n">> ELSE <<>>)
               \o walk(Tail(bs))
  IN walk(blocks)

\* MCPToolAdapter.Execute from the return of a.client.CallTool on.
ExecuteResult(ret) ==
  IF ret.err # ""
  THEN WithError(ErrorResult(<<"mcp call failed: ", ret.err>>), ret.err)
  ELSE IF ret.IsError
       THEN ErrorResult(extractTextContent(ret.Content))
       ELSE NewToolResult(extractTextContent(ret.Content))

InitExec == exec = [closed |-> FALSE, res |-> "none"]

\* What client.CallTool can return on client c: an error, a CallToolResult, or
\* a CallToolResult with isError. After Close() a StdioClient cannot write to its
\* closed stdin and an SSEClient finds c.ctx done in its select; HTTPClient.Close
\* does nothing and its CallTool goes on as before.
CallTool(c) ==
  IF c \in closeCalled /\ cKind[c] # "http"
  THEN {ret \in CallRets : ret.err # ""}
  ELSE {ret \in CallRets : ret.Content = <<>>}

\* MCPToolAdapter.Execute on the adapter registered under name n (adapters are
\* reached through the registry, outside m.mu): an error result unless CallTool
\* returned a result without isError. (What the result holds is left to
\* ExecuteAdapter: the content CallTool returns is empty here.)
Execute(n) ==
  /\ registry[n] # 0
  /\ \E ret \in CallTool(registry[n]) :
       exec' = [closed |-> registry[n] \in closeCalled,
                res |-> IF ExecuteResult(ret).IsError THEN "error" ELSE "ok"]
  /\ UNCHANGED <<clientVars, mgrVars, initVars, otherVars>>

\* ---- the request ids of one client

InitIds ==
  /\ issued = <<>>
  /\ myId = [g \in Callers |-> <<>>]

\* atomic.AddUint64(&c.nextID, 1): the new value.
AddUint64(n) == n + 1

Digits == <<"0", "1", "2", "3", "4", "5", "6", "7", "8", "9">>
HexDigits == Digits \o <<"a", "b", "c", "d", "e", "f">>

\* fmt.Sprintf("%x", n): the digits of n in base sixteen.
RECURSIVE SprintfX(_)
SprintfX(n) ==
  IF n < 16 THEN <<HexDigits[n + 1]>>
  ELSE SprintfX(n \div 16) \o <<HexDigits[(n % 16) + 1]>>

\* fmt.Sprintf("%d", n): the decimal digits of n.
RECURSIVE SprintfD(_)
SprintfD(n) ==
  IF n < 10 THEN <<Digits[n + 1]>>
  ELSE SprintfD(n \div 10) \o <<Digits[(n % 10) + 1]>>

\* sendRequest of caller g, its first statement: the counter is incremented
\* atomically and its new value formatted.
sendRequestId(g) ==
  /\ myId[g] = <<>> /\ Len(issued) < MaxIds
  /\ nextID' = AddUint64(nextID)
  /\ myId' = [myId EXCEPT ![g] = SprintfD(nextID')]
  /\ issued' = Append(issued, SprintfD(nextID'))
  /\ UNCHANGED <<pending, chanBuf, pc, outcome, got, callerCtx, wire, afterEOF,
                 connVars, readerVars, sseVars, mgrVars, execVars, initVars,
                 adapterVars, toolVars, obsVars>>

\* sendRequest of caller g returns.
sendRequestEnd(g) ==
  /\ myId[g] # <<>>
  /\ myId' = [myId EXCEPT ![g] = <<>>]
  /\ UNCHANGED <<issued, clientVars, mgrVars, execVars, initVars, adapterVars,
                 toolVars, obsVars>>

NextIds ==
  \/ \E g \in Callers : sendRequestId(g)
  \/ \E g \in Callers : sendRequestEnd(g)

\* ---- one adapter, with the results CallTool can give it

\* The adapters NewMCPToolAdapter can build: registered under the prefixed name,
\* calling the provider under the original one.
Adapters ==
  {[originalName |-> t, Name |-> Sprintf(a, t)] : a \in Aliases, t \in ToolNames}

NoRet == [err |-> "", IsError |-> FALSE, Content |-> <<>>]

NoAdapter == [originalName |-> <<>>, Name |-> <<>>]

InitAdapter ==
  /\ adapter = NoAdapter
  /\ called = <<>>
  /\ callRet = NoRet
  /\ toolResult = NewToolResult(<<>>)

\* NewMCPToolAdapter(client, def, originalName).
NewMCPToolAdapter ==
  /\ adapter = NoAdapter
  /\ adapter' \in Adapters
  /\ UNCHANGED <<called, callRet, toolResult, clientVars, mgrVars, execVars,
                 initVars, idVars, toolVars, obsVars>>

\* MCPToolAdapter.Execute: a.client.CallTool(ctx, a.originalName, args) and the
\* mapping of what it returns.
ExecuteAdapter ==
  /\ adapter # NoAdapter
  /\ \E ret \in CallRets :
       /\ callRet' = ret
       /\ toolResult' = ExecuteResult(ret)
  /\ called' = adapter.originalName
  /\ UNCHANGED <<adapter, clientVars, mgrVars, execVars, initVars, idVars,
                 toolVars, obsVars>>

NextAdapter ==
  \/ NewMCPToolAdapter
  \/ ExecuteAdapter

NextMgr ==
  \/ \E n \in RegNames : Execute(n)
  \/ \E g \in Callers : StartAndRegisterCall(g)
  \/ \E g \in Callers : StartAndRegisterLock(g)
  \/ \E g \in Callers : StartAndRegisterCreate(g)
  \/ \E g \in Callers : StartAndRegisterInitialize(g)
  \/ \E g \in Callers : StartAndRegisterListTools(g)
  \/ \E g \in Callers : StartAndRegisterRegister(g)
  \/ \E g \in Callers : StartAndRegisterStore(g)
  \/ \E g \in Callers : ShutdownCall(g)
  \/ \E g \in Callers : ShutdownLock(g)
  \/ \E g \in Callers : ShutdownRange(g)
  \/ \E g \in Callers : ShutdownReturn(g)

\* ============================================================ the file tools
\* ---- paths (path/filepath)

\* A path is a sequence of components and the mark of a leading separator;
\* "" and "." are the relative path of no component, "/" the absolute one.
Names == {"w", "o", "l", "d"}
Comps == Names \cup {".."}
PathSeqs(n) == UNION {[1..k -> Comps] : k \in 0..n}
Paths == [abs : BOOLEAN, comps : PathSeqs(MaxPath)]
EmptyPath == [abs |-> FALSE, comps |-> <<>>]
AbsPath(cs) == [abs |-> TRUE, comps |-> cs]

\* filepath.Clean, a component at a time: ".." removes the component before
\* it, is dropped at the root and is kept at the front of a relative path.
RECURSIVE CleanFrom(_, _, _)
CleanFrom(abs, out, rest) ==
  IF rest = <<>> THEN out
  ELSE IF Head(rest) # ".." THEN CleanFrom(abs, Append(out, Head(rest)), Tail(rest))
  ELSE IF out # <<>> /\ out[Len(out)] # ".."
         THEN CleanFrom(abs, SubSeq(out, 1, Len(out) - 1), Tail(rest))
  ELSE IF abs THEN CleanFrom(abs, out, Tail(rest))
  ELSE CleanFrom(abs, Append(out, ".."), Tail(rest))

Clean(p) == [abs |-> p.abs, comps |-> CleanFrom(p.abs, <<>>, p.comps)]

\* filepath.Join(a, b): the components of both, cleaned.
Join(a, b) == Clean([abs |-> a.abs, comps |-> a.comps \o b.comps])

IsAbs(p) == p.abs

\* The working directory of the process: the root.
Getwd == AbsPath(<<>>)

\* filepath.Abs.
Abs(p) == IF IsAbs(p) THEN Clean(p) ELSE Join(Getwd, p)

\* filepath.Dir of a clean path.
Dir(p) ==
  IF p.comps = <<>> THEN p
  ELSE [abs |-> p.abs, comps |-> SubSeq(p.comps, 1, Len(p.comps) - 1)]

\* The length of the common prefix of two sequences of components.
RECURSIVE common(_, _)
common(a, b) ==
  IF a # <<>> /\ b # <<>> /\ Head(a) = Head(b)
    THEN 1 + common(Tail(a), Tail(b))
    ELSE 0

\* filepath.Rel(base, targ) of clean paths: one ".." for each component of
\* base after the common prefix, then the rest of targ; an error when one is
\* absolute and the other is not, or when base keeps a ".." to climb over.
Rel(base, targ) ==
  LET k == common(base.comps, targ.comps)
      up == Len(base.comps) - k
  IN IF base.abs # targ.abs \/ (\E i \in (k + 1)..Len(base.comps) : base.comps[i] = "..")
       THEN [err |-> "Rel: can't make relative", path |-> EmptyPath]
       ELSE [err |-> "nil",
             path |-> [abs |-> FALSE,
                       comps |-> [i \in 1..up |-> ".."]
                                   \o SubSeq(targ.comps, k + 1, Len(targ.comps))]]

\* filepath.IsLocal: not absolute, and no prefix of the path climbs above its
\* start.
IsLocal(p) ==
  /\ ~p.abs
  /\ \A n \in 1..Len(p.comps) :
       Cardinality({i \in 1..n : p.comps[i] = ".."}) * 2 <= n

\* ---- the file system validatePath looks at

Directory == [kind |-> "dir", target |-> <<>>]
File == [kind |-> "file", target |-> <<>>]
Symlink(t) == [kind |-> "link", target |-> t]

\* The root holds the workspace /w, a directory /o outside it with a file
\* /o/d, and a link /l to the workspace.
BaseFs ==
  (<<>> :> Directory) @@ (<<"w">> :> Directory) @@ (<<"o">> :> Directory)
    @@ (<<"o", "d">> :> File) @@ (<<"l">> :> Symlink(<<"w">>))

\* What the workspace may hold at /w/l: nothing, a directory, a file, or a
\* link to a place outside (existing or not) or inside (existing or not, or
\* itself).
LinkTargets == {<<"o">>, <<"o", "d">>, <<"o", "l">>, <<"w", "d">>, <<"w", "l">>}
EntriesL == {Directory, File} \cup {Symlink(t) : t \in LinkTargets}
EntriesD == {Directory, File}

FileSystems ==
  LET withL == {BaseFs} \cup {(<<"w", "l">> :> e) @@ BaseFs : e \in EntriesL}
  IN withL \cup {(<<"w", "d">> :> e) @@ fs : e \in EntriesD, fs \in withL}

\* filepath.EvalSymlinks (walkSymlinks): each component is looked up with
\* Lstat; a link is replaced by its target and the walk starts again from the
\* root with the rest of the path; a file with components left is ENOTDIR;
\* more than MaxLinks links is an error.
RECURSIVE walkSymlinks(_, _, _, _)
walkSymlinks(fs, dest, rest, links) ==
  IF rest = <<>> THEN [err |-> "nil", path |-> AbsPath(dest)]
  ELSE LET next == Append(dest, Head(rest)) IN
    IF next \notin DOMAIN fs THEN [err |-> "ENOENT", path |-> EmptyPath]
    ELSE IF fs[next].kind = "link"
      THEN IF links >= MaxLinks
             THEN [err |-> "too many links", path |-> EmptyPath]
             ELSE walkSymlinks(fs, <<>>, fs[next].target \o Tail(rest), links + 1)
    ELSE IF fs[next].kind = "file" /\ Tail(rest) # <<>>
      THEN [err |-> "ENOTDIR", path |-> EmptyPath]
    ELSE walkSymlinks(fs, next, Tail(rest), links)

EvalSymlinks(fs, p) == walkSymlinks(fs, <<>>, p.comps, 0)

\* os.IsNotExist.
IsNotExist(err) == err = "ENOENT"

\* resolveExistingAncestor: the first of path, its parent, ... that
\* EvalSymlinks resolves.
RECURSIVE resolveExistingAncestor(_, _)
resolveExistingAncestor(fs, current) ==
  LET r == EvalSymlinks(fs, current) IN
  IF r.err = "nil" THEN r
  ELSE IF ~IsNotExist(r.err) THEN r
  ELSE IF Dir(current) = current THEN [err |-> "ENOENT", path |-> EmptyPath]
  ELSE resolveExistingAncestor(fs, Dir(current))

\* A check that lets every path through.
isWithinAlways(candidate, workspace) == TRUE

\* isWithinWorkspace(candidate, workspace).
isWithinWorkspace(candidate, workspace) ==
  LET r == Rel(Clean(workspace), Clean(candidate))
  IN r.err = "nil" /\ IsLocal(r.path)

\* ---- validatePath

OutsideWorkspace == "access denied: path is outside the workspace"
SymlinkOutside == "access denied: symlink resolves outside workspace"
FailedResolve == "failed to resolve path"
NoWorkspace == "workspace is not defined"

\* The path validatePath checks: an absolute input cleaned, a relative one
\* joined to the workspace.
absPathOf(path, absWorkspace) ==
  IF IsAbs(path) THEN Clean(path) ELSE Abs(Join(absWorkspace, path))

\* The workspace with its links resolved, or as given when that fails.
workspaceRealOf(fs, absWorkspace) ==
  LET r == EvalSymlinks(fs, absWorkspace)
  IN IF r.err = "nil" THEN r.path ELSE absWorkspace

\* The restricted part of validatePath.
validateRestricted(fs, absPath, absWorkspace) ==
  LET workspaceReal == workspaceRealOf(fs, absWorkspace)
      resolved == EvalSymlinks(fs, absPath)
      parent == resolveExistingAncestor(fs, Dir(absPath))
  IN IF ~isWithinWorkspace(absPath, absWorkspace)
       THEN [path |-> EmptyPath, err |-> OutsideWorkspace]
     ELSE IF resolved.err = "nil"
       THEN IF ~isWithinWorkspace(resolved.path, workspaceReal)
              THEN [path |-> EmptyPath, err |-> SymlinkOutside]
              ELSE [path |-> absPath, err |-> "nil"]
     ELSE IF IsNotExist(resolved.err)
       THEN IF parent.err = "nil"
              THEN IF ~isWithinWorkspace(parent.path, workspaceReal)
                     THEN [path |-> EmptyPath, err |-> SymlinkOutside]
                     ELSE [path |-> absPath, err |-> "nil"]
            ELSE IF ~IsNotExist(parent.err)
              THEN [path |-> EmptyPath, err |-> FailedResolve]
            ELSE [path |-> absPath, err |-> "nil"]
     ELSE [path |-> EmptyPath, err |-> FailedResolve]

\* validatePath(path, workspace, restrict) on the file system fs.
validatePath(fs, path, workspace, restrict) ==
  IF workspace = EmptyPath THEN [path |-> path, err |-> NoWorkspace]
  ELSE LET absWorkspace == Abs(workspace)
           absPath == absPathOf(path, absWorkspace)
       IN IF restrict
            THEN validateRestricted(fs, absPath, absWorkspace)
            ELSE [path |-> absPath, err |-> "nil"]

\* The workspaces of the calls: none, /w, and the link /l to it.
Workspaces == {EmptyPath, AbsPath(<<"w">>), AbsPath(<<"l">>)}

NoCall ==
  [done |-> FALSE, fs |-> BaseFs, path |-> EmptyPath, workspace |-> EmptyPath,
   restrict |-> FALSE, ret |-> [path |-> EmptyPath, err |-> "nil"]]

InitValidatePath == vp = NoCall

\* One call of validatePath, on any of the file systems.
validatePathCall ==
  /\ ~vp.done
  /\ \E fs \in FileSystems, path \in Paths, workspace \in Workspaces,
        restrict \in BOOLEAN :
       vp' = [done |-> TRUE, fs |-> fs, path |-> path, workspace |-> workspace,
              restrict |-> restrict,
              ret |-> validatePath(fs, path, workspace, restrict)]
  /\ UNCHANGED <<clientVars, mgrVars, execVars, initVars, idVars, adapterVars,
                 writeVars, sb, searchVars, callVars,
              fileOpVars,
              obsVars>>

NextPath == validatePathCall

\* ---- hostFs.WriteFile, sandboxFs.WriteFile

\* The writers write one path; the names of the directory are that path and
\* the temporary names made from it and a clock reading.
Writers == 1..NWriters
Times == 1..MaxTime
Target == <<"f">>
tmpPathOf(path, nanos) == <<path, nanos, "tmp">>
FileNames == {Target} \cup {tmpPathOf(Target, t) : t \in Times}
Inodes == 1..(NWriters + 1)
Impls == {"host", "sandbox"}

\* What the file holds before the writes, and what writer w writes.
OldData == <<0, 0>>
DataOf(w) == <<w, w>>

InitWriteFile ==
  /\ names = [n \in FileNames |-> IF n = Target THEN 1 ELSE 0]
  /\ inodes = [i \in Inodes |-> IF i = 1 THEN OldData ELSE <<>>]
  /\ ninodes = 1
  /\ now = 1
  /\ wpc = [w \in Writers |-> "idle"]
  /\ wimpl = [w \in Writers |-> "none"]
  /\ wtmp = [w \in Writers |-> 0]
  /\ wfd = [w \in Writers |-> 0]
  /\ werr = [w \in Writers |-> "none"]
  /\ seen = OldData

unchangedForWrite ==
  UNCHANGED <<clientVars, mgrVars, execVars, initVars, idVars, adapterVars, vp,
              sb, searchVars, callVars,
              fileOpVars,
              obsVars>>

\* WriteFile(path, data) of either file system is called; the parent
\* directory of the path exists, so MkdirAll changes nothing.
WriteFileCall(w) ==
  /\ wpc[w] = "idle"
  /\ \E impl \in Impls : wimpl' = [wimpl EXCEPT ![w] = impl]
  /\ wpc' = [wpc EXCEPT ![w] = "mkdir"]
  /\ UNCHANGED <<names, inodes, ninodes, now, wtmp, wfd, werr, seen>>
  /\ unchangedForWrite

\* time.Now().UnixNano(): a reading of the clock, not before the last one.
UnixNano == {t \in Times : t >= now}

\* tmpPath := fmt.Sprintf("%s.%d.tmp", path, time.Now().UnixNano()).
WriteFileTmpPath(w) ==
  /\ wpc[w] = "mkdir"
  /\ \E t \in UnixNano :
       /\ now' = t
       /\ wtmp' = [wtmp EXCEPT ![w] = t]
  /\ wpc' = [wpc EXCEPT ![w] = "open"]
  /\ UNCHANGED <<names, inodes, ninodes, wimpl, wfd, werr, seen>>
  /\ unchangedForWrite

\* os.WriteFile(tmpPath, ...) opens the name with O_CREATE|O_TRUNC: a file of
\* that name is emptied, a missing one is created empty.
WriteFileOpen(w) ==
  LET tmp == tmpPathOf(Target, wtmp[w]) IN
  /\ wpc[w] = "open"
  /\ IF names[tmp] # 0
       THEN /\ inodes' = [inodes EXCEPT ![names[tmp]] = <<>>]
            /\ wfd' = [wfd EXCEPT ![w] = names[tmp]]
            /\ UNCHANGED <<names, ninodes>>
       ELSE /\ ninodes' = ninodes + 1
            /\ names' = [names EXCEPT ![tmp] = ninodes + 1]
            /\ inodes' = [inodes EXCEPT ![ninodes + 1] = <<>>]
            /\ wfd' = [wfd EXCEPT ![w] = ninodes + 1]
  /\ wpc' = [wpc EXCEPT ![w] = "write"]
  /\ UNCHANGED <<now, wimpl, wtmp, werr, seen>>
  /\ unchangedForWrite

\* os.WriteFile writes the data through the open file and closes it.
WriteFileWrite(w) ==
  /\ wpc[w] = "write"
  /\ inodes' = [inodes EXCEPT ![wfd[w]] = DataOf(w)]
  /\ wpc' = [wpc EXCEPT ![w] = "rename"]
  /\ UNCHANGED <<names, ninodes, now, wimpl, wtmp, wfd, werr, seen>>
  /\ unchangedForWrite

\* os.WriteFile fails: the temporary name is removed and the error returned.
WriteFileWriteFails(w) ==
  /\ wpc[w] = "write"
  /\ names' = [names EXCEPT ![tmpPathOf(Target, wtmp[w])] = 0]
  /\ werr' = [werr EXCEPT ![w] = "failed to write temp file"]
  /\ wpc' = [wpc EXCEPT ![w] = "done"]
  /\ UNCHANGED <<inodes, ninodes, now, wimpl, wtmp, wfd, seen>>
  /\ unchangedForWrite

\* os.Rename(tmpPath, path): the target names the file the temporary name
\* named, in one step.
Rename(nm, tmp) == [nm EXCEPT ![Target] = nm[tmp], ![tmp] = 0]

\* The rename of writer w; it fails when the temporary name is gone.
WriteFileRename(w) ==
  LET tmp == tmpPathOf(Target, wtmp[w]) IN
  /\ wpc[w] = "rename"
  /\ IF names[tmp] # 0
       THEN /\ names' = Rename(names, tmp)
            /\ werr' = [werr EXCEPT ![w] = "nil"]
       ELSE /\ names' = names
            /\ werr' = [werr EXCEPT ![w] = "failed to replace original file"]
  /\ wpc' = [wpc EXCEPT ![w] = "done"]
  /\ UNCHANGED <<inodes, ninodes, now, wimpl, wtmp, wfd, seen>>
  /\ unchangedForWrite

\* os.Rename fails with the temporary file in place (the target is a directory,
\* or may not be replaced): the temporary name is removed and the error returned.
WriteFileRenameFails(w) ==
  /\ wpc[w] = "rename"
  /\ names[tmpPathOf(Target, wtmp[w])] # 0
  /\ names' = [names EXCEPT ![tmpPathOf(Target, wtmp[w])] = 0]
  /\ werr' = [werr EXCEPT ![w] = "failed to replace original file"]
  /\ wpc' = [wpc EXCEPT ![w] = "done"]
  /\ UNCHANGED <<inodes, ninodes, now, wimpl, wtmp, wfd, seen>>
  /\ unchangedForWrite

\* ReadFile(path) of a concurrent reader.
ReadFileTarget ==
  /\ names[Target] # 0
  /\ seen' = inodes[names[Target]]
  /\ UNCHANGED <<names, inodes, ninodes, now, wpc, wimpl, wtmp, wfd, werr>>
  /\ unchangedForWrite

NextWrite ==
  \/ \E w \in Writers : WriteFileCall(w)
  \/ \E w \in Writers : WriteFileTmpPath(w)
  \/ \E w \in Writers : WriteFileOpen(w)
  \/ \E w \in Writers : WriteFileWrite(w)
  \/ \E w \in Writers : WriteFileWriteFails(w)
  \/ \E w \in Writers : WriteFileRename(w)
  \/ \E w \in Writers : WriteFileRenameFails(w)
  \/ ReadFileTarget

\* ---- sandboxFs

EscapesParent == "path escapes from parent"

\* A lookup through an os.Root: the components are walked from the root
\* directory; a link met on the way is refused, since its target is absolute.
RECURSIVE rootLookup(_, _, _)
rootLookup(fs, at, rest) ==
  IF rest = <<>> THEN [err |-> "nil", at |-> at]
  ELSE LET next == Append(at, Head(rest)) IN
    IF next \notin DOMAIN fs THEN [err |-> "ENOENT", at |-> at]
    ELSE IF fs[next].kind = "link" THEN [err |-> EscapesParent, at |-> at]
    ELSE IF fs[next].kind = "file" /\ Tail(rest) # <<>>
      THEN [err |-> "ENOTDIR", at |-> at]
    ELSE rootLookup(fs, next, Tail(rest))

\* root.MkdirAll: the missing directories of the path are created.
RECURSIVE rootMkdirAll(_, _, _)
rootMkdirAll(fs, at, rest) ==
  IF rest = <<>> THEN [err |-> "nil", fs |-> fs]
  ELSE LET next == Append(at, Head(rest)) IN
    IF next \notin DOMAIN fs
      THEN rootMkdirAll((next :> Directory) @@ fs, next, Tail(rest))
    ELSE IF fs[next].kind = "link" THEN [err |-> EscapesParent, fs |-> fs]
    ELSE IF fs[next].kind = "file" THEN [err |-> "ENOTDIR", fs |-> fs]
    ELSE rootMkdirAll(fs, next, Tail(rest))

\* getSafeRelPath(workspace, path): an error is a message in its parts.
getSafeRelPath(workspace, path) ==
  LET cleaned == Clean(path)
      r == Rel(workspace, cleaned)
      rel == IF IsAbs(cleaned) THEN r.path ELSE cleaned
  IN IF workspace = EmptyPath THEN [err |-> <<NoWorkspace>>, rel |-> EmptyPath]
     ELSE IF IsAbs(cleaned) /\ r.err # "nil"
       THEN [err |-> <<"failed to calculate relative path", r.err>>, rel |-> EmptyPath]
     ELSE IF ~IsLocal(rel)
       THEN [err |-> <<"path escapes workspace">>, rel |-> EmptyPath]
     ELSE [err |-> <<>>, rel |-> rel]

\* What an operation of the sandbox gives: its error (<<>>: none) in parts,
\* the error of the root handle under it, the file system it leaves, and the
\* place it read.
SandboxResult(err, rootErr, fs, readAt) ==
  [err |-> err, rootErr |-> rootErr, fs |-> fs, readAt |-> readAt]

NoPlace == <<"none">>

\* The function ReadFile passes to execute.
sandboxReadFile(fs, root, relPath) ==
  LET r == rootLookup(fs, root, relPath.comps)
      place == root \o relPath.comps
  IN IF r.err = "ENOENT"
       THEN SandboxResult(<<"failed to read file", "file not found", r.err>>, r.err, fs, NoPlace)
     ELSE IF r.err = EscapesParent
       THEN SandboxResult(<<"failed to read file", "access denied", r.err>>, r.err, fs, NoPlace)
     ELSE IF r.err # "nil"
       THEN SandboxResult(<<"failed to read file", r.err>>, r.err, fs, NoPlace)
     ELSE IF fs[place].kind = "dir"
       THEN SandboxResult(<<"failed to read file", "EISDIR">>, "EISDIR", fs, NoPlace)
     ELSE SandboxResult(<<>>, "nil", fs, place)

\* The function ReadDir passes to execute: the error is returned as it is.
sandboxReadDir(fs, root, relPath) ==
  LET r == rootLookup(fs, root, relPath.comps)
      place == root \o relPath.comps
  IN IF r.err # "nil" THEN SandboxResult(<<r.err>>, r.err, fs, NoPlace)
     ELSE IF fs[place].kind = "file"
       THEN SandboxResult(<<"ENOTDIR">>, "ENOTDIR", fs, NoPlace)
     ELSE SandboxResult(<<>>, "nil", fs, place)

\* The function WriteFile passes to execute: the parents are made, the data
\* written under a temporary name in the same directory, and that name
\* renamed over the target; renaming over a directory fails, and the
\* temporary name is removed.
sandboxWriteFile(fs, root, relPath) ==
  LET dir == Dir(relPath)
      made == IF dir.comps # <<>>
                THEN rootMkdirAll(fs, root, dir.comps)
                ELSE [err |-> "nil", fs |-> fs]
      place == root \o relPath.comps
  IN IF made.err # "nil"
       THEN SandboxResult(<<"failed to create parent directories", made.err>>,
                          made.err, made.fs, NoPlace)
     ELSE IF place \in DOMAIN made.fs /\ made.fs[place].kind = "dir"
       THEN SandboxResult(<<"failed to rename temp file over target", "EISDIR">>,
                          "EISDIR", made.fs, NoPlace)
     ELSE SandboxResult(<<>>, "nil", (place :> File) @@ made.fs, NoPlace)

SandboxOps == {"ReadFile", "ReadDir", "WriteFile"}

\* sandboxFs.execute, with the function of the operation.
execute(fs, op, workspace, path) ==
  LET opened == EvalSymlinks(fs, Abs(workspace))
      safe == getSafeRelPath(workspace, path)
  IN IF workspace = EmptyPath
       THEN SandboxResult(<<NoWorkspace>>, "nil", fs, NoPlace)
     ELSE IF opened.err # "nil"
       THEN SandboxResult(<<"failed to open workspace", opened.err>>, "nil", fs, NoPlace)
     ELSE IF safe.err # <<>> THEN SandboxResult(safe.err, "nil", fs, NoPlace)
     ELSE IF op = "ReadFile" THEN sandboxReadFile(fs, opened.path.comps, safe.rel)
     ELSE IF op = "ReadDir" THEN sandboxReadDir(fs, opened.path.comps, safe.rel)
     ELSE sandboxWriteFile(fs, opened.path.comps, safe.rel)

NoSandboxCall ==
  [done |-> FALSE, fs |-> BaseFs, op |-> "none", path |-> EmptyPath,
   workspace |-> EmptyPath, ret |-> SandboxResult(<<>>, "nil", BaseFs, NoPlace)]

InitSandbox == sb = NoSandboxCall

\* One operation of a sandboxFs, on any of the file systems.
sandboxCall ==
  /\ ~sb.done
  /\ \E fs \in FileSystems, op \in SandboxOps, path \in Paths,
        workspace \in Workspaces :
       sb' = [done |-> TRUE, fs |-> fs, op |-> op, path |-> path,
              workspace |-> workspace, ret |-> execute(fs, op, workspace, path)]
  /\ UNCHANGED <<clientVars, mgrVars, execVars, initVars, idVars, adapterVars,
                 vp, writeVars, searchVars, callVars,
              fileOpVars,
              obsVars>>

NextSandbox == sandboxCall

\* ---- RegexSearchTool.Execute, BM25SearchTool.Execute

PromotedToolTTL == 10

\* The tools of the registry, and the lists a search may return: tools in
\* some order, none twice.
Catalog == {"t1", "t2", "t3"}

\* The deferred ones among them, a name that is not registered, and the names
\* a promotion can be kept for.
Deferred == {"t1", "t2"}
UnknownTool == "tx"
PromotionNames == Catalog \cup {UnknownTool}
SearchResults ==
  {s \in UNION {[1..k -> Catalog] : k \in 0..MaxHits} :
     \A i, j \in 1..Len(s) : i # j => s[i] # s[j]}
SearchTools == {"tool_search_tool_regex", "tool_search_tool_bm25"}

\* ToolRegistry.PromoteTool(name, ttl): the promotion of the name is set to
\* the ttl, the others are left as they are.
PromoteTool(p, name, ttl) == [p EXCEPT ![name] = ttl]

\* ToolRegistry.TickPromotions(): every promotion loses one iteration, and
\* those that reach zero are removed.
TickPromotions(p) == [t \in DOMAIN p |-> IF p[t] > 0 THEN p[t] - 1 ELSE 0]

\* ToolRegistry.VisibleTools(): the tools that are not deferred and the
\* deferred ones that are promoted.
VisibleTools(p) == (Catalog \ Deferred) \cup {t \in Deferred : p[t] > 0}

\* ToolRegistry.SearchRegex(pattern): an error for a pattern that does not
\* compile, else the matching tools.
SearchRegex(valid, hits) ==
  IF valid THEN [res |-> hits, err |-> "nil"]
           ELSE [res |-> <<>>, err |-> "error parsing regexp"]

\* ToolRegistry.SearchBM25(query): the tools found, best first.
SearchBM25(hits) == [res |-> hits, err |-> "nil"]

InitSearch ==
  /\ promotions = [t \in PromotionNames |-> 0]
  /\ spc = "idle"
  /\ sres = <<>>
  /\ sleft = <<>>
  /\ sret = "none"
  /\ lastTTL = [t \in PromotionNames |-> 0]
  /\ ticksSince = [t \in PromotionNames |-> 0]

\* The record of a PromoteTool(name, ttl) call, and of a TickPromotions call.
promotionNoted(name, ttl) ==
  /\ lastTTL' = [lastTTL EXCEPT ![name] = ttl]
  /\ ticksSince' = [ticksSince EXCEPT ![name] = 0]

tickNoted ==
  /\ ticksSince' = [t \in PromotionNames |->
                      IF ticksSince[t] < lastTTL[t] THEN ticksSince[t] + 1
                                                    ELSE ticksSince[t]]
  /\ UNCHANGED lastTTL

unchangedForSearch ==
  UNCHANGED <<clientVars, mgrVars, execVars, initVars, idVars, adapterVars, vp,
              writeVars, sb, callVars,
              fileOpVars,
              obsVars>>

\* Execute of one of the two search tools, up to its loop: the search is made,
\* and an error or an empty result is returned at once.
SearchExecute(tool) ==
  /\ spc \in {"idle", "done"}
  /\ \E valid \in BOOLEAN, hits \in SearchResults :
       LET found == IF tool = "tool_search_tool_regex"
                      THEN SearchRegex(valid, hits)
                      ELSE SearchBM25(hits)
       IN /\ sres' = found.res
          /\ sleft' = found.res
          /\ IF found.err # "nil"
               THEN spc' = "done" /\ sret' = "ErrorResult"
             ELSE IF Len(found.res) = 0
               THEN spc' = "done" /\ sret' = "No tools found"
             ELSE spc' = "promote" /\ sret' = "none"
  /\ UNCHANGED <<promotions, lastTTL, ticksSince>>
  /\ unchangedForSearch

\* A loop body that promotes nothing.
promoteSkipped(p, left) == p

\* A loop body that promotes for one iteration more.
promoteLonger(p, left) == PromoteTool(p, Head(left), PromotedToolTTL + 1)

\* The body of the loop over the results: the next result is promoted with
\* the default TTL.
promoteNext(p, left) == PromoteTool(p, Head(left), PromotedToolTTL)

\* One iteration of the loop over the results.
SearchPromote ==
  /\ spc = "promote" /\ sleft # <<>>
  /\ promotions' = promoteNext(promotions, sleft)
  /\ promotionNoted(Head(sleft), PromotedToolTTL)
  /\ sleft' = Tail(sleft)
  /\ UNCHANGED <<spc, sres, sret>>
  /\ unchangedForSearch

\* The results are returned with the message that they are unlocked.
SearchReturn ==
  /\ spc = "promote" /\ sleft = <<>>
  /\ spc' = "done"
  /\ sret' = "Found"
  /\ UNCHANGED <<promotions, sres, sleft, lastTTL, ticksSince>>
  /\ unchangedForSearch

\* The agent loop ends an iteration, between two executions.
Tick ==
  /\ spc \in {"idle", "done"} /\ cpc \in {"idle", "done"}
  /\ promotions' = TickPromotions(promotions)
  /\ tickNoted
  /\ UNCHANGED <<spc, sres, sleft, sret>>
  /\ unchangedForSearch

NextSearch ==
  \/ \E tool \in SearchTools : SearchExecute(tool)
  \/ SearchPromote
  \/ SearchReturn
  \/ Tick

\* ToolRegistry.PromoteTool(name, ttl) called on a deferred tool with some TTL.
RegistryPromote ==
  /\ spc \in {"idle", "done"} /\ cpc \in {"idle", "done"}
  /\ \E t \in Deferred, n \in 1..MaxTTL :
       /\ promotions' = PromoteTool(promotions, t, n)
       /\ promotionNoted(t, n)
  /\ UNCHANGED <<spc, sres, sleft, sret>>
  /\ unchangedForSearch

NextTTL ==
  \/ \E tool \in SearchTools : SearchExecute(tool)
  \/ SearchPromote
  \/ SearchReturn
  \/ Tick
  \/ RegistryPromote

\* ---- CallDiscoveredTool.Execute

\* The texts given as arguments_json: two objects, null, an array and the
\* empty text; the names given as tool_name: two deferred tools and a name
\* that is not registered.
JsonObjects == {"{}", "{\"a\":1}"}
JsonTexts == JsonObjects \cup {"null", "[1]", ""}
CallNames == Deferred \cup {UnknownTool}

\* The arguments before they are parsed; a nil map.
NilArgs == "nil"

\* json.Unmarshal([]byte(text), &parsedArgs) into a map[string]any: an object
\* fills the map, null leaves it nil without an error, anything else is an
\* error.
UnmarshalArgs(text) ==
  IF text \in JsonObjects THEN [err |-> "nil", args |-> <<"map", text>>]
  ELSE IF text = "null" THEN [err |-> "nil", args |-> <<"map", NilArgs>>]
  ELSE [err |-> "invalid arguments_json format", args |-> <<"map", NilArgs>>]

\* What a tool returns when it is run.
ToolOutcomes == {"result", "error result"}

InitCall ==
  /\ cpc = "idle"
  /\ cname = UnknownTool
  /\ cargs = [json |-> "", parsed |-> <<"map", NilArgs>>]
  /\ cret = <<"none">>
  /\ ran = <<>>

unchangedForCall ==
  UNCHANGED <<clientVars, mgrVars, execVars, initVars, idVars, adapterVars, vp,
              writeVars, sb, spc, sres, sleft, sret,
              fileOpVars,
              obsVars>>

\* Execute of call_discovered_tool up to the parsing of arguments_json: a
\* text that does not parse is answered with an error result.
CallDiscoveredParse ==
  /\ cpc \in {"idle", "done"} /\ spc \in {"idle", "done"}
  /\ \E name \in CallNames, text \in JsonTexts :
       LET parsed == UnmarshalArgs(text) IN
         /\ cname' = name
         /\ cargs' = [json |-> text, parsed |-> parsed.args]
         /\ IF parsed.err # "nil"
              THEN cpc' = "done" /\ cret' = <<"ErrorResult", parsed.err>>
              ELSE cpc' = "promote" /\ cret' = <<"none">>
  /\ ran' = <<>>
  /\ UNCHANGED <<promotions, lastTTL, ticksSince>>
  /\ unchangedForCall

\* A renewal that is left out.
renewSkipped(p, name) == p

\* t.registry.PromoteTool(name, PromotedToolTTL): the TTL is renewed when the
\* tool is used.
renew(p, name) == PromoteTool(p, name, PromotedToolTTL)

CallDiscoveredPromote ==
  /\ cpc = "promote"
  /\ promotions' = renew(promotions, cname)
  /\ promotionNoted(cname, PromotedToolTTL)
  /\ cpc' = "execute"
  /\ UNCHANGED <<cname, cargs, cret, ran>>
  /\ unchangedForCall

\* ToolRegistry.Execute(ctx, name, args): an unknown name is an error result;
\* a registered tool is run once with the arguments and its result returned,
\* and the promotion of a deferred tool is renewed.
RegistryExecute(p, name, args, result) ==
  IF name \notin Catalog
    THEN [ret |-> <<"ErrorResult", "tool not found">>, ran |-> <<>>, p |-> p]
    ELSE [ret |-> <<result, name>>, ran |-> <<[name |-> name, args |-> args]>>,
          p |-> IF name \in Deferred THEN PromoteTool(p, name, PromotedToolTTL) ELSE p]

\* return t.registry.Execute(ctx, name, parsedArgs).
CallDiscoveredExecute ==
  /\ cpc = "execute"
  /\ \E result \in ToolOutcomes :
       LET e == RegistryExecute(promotions, cname, cargs.parsed, result) IN
         /\ cret' = e.ret
         /\ ran' = ran \o e.ran
         /\ promotions' = e.p
  /\ cpc' = "done"
  /\ UNCHANGED <<cname, cargs, lastTTL, ticksSince>>
  /\ unchangedForCall

NextCall ==
  \/ CallDiscoveredParse
  \/ CallDiscoveredPromote
  \/ CallDiscoveredExecute
  \/ Tick

\* ---- edit_file

\* The texts of the files and of the arguments: strings of at most n characters.
Chars == {"a", "b"}
TextsUpTo(n) == UNION {[1..k -> Chars] : k \in 0..n}

\* sub occurs in s at the offset i.
occursAt(s, sub, i) ==
  i + Len(sub) <= Len(s) /\ SubSeq(s, i + 1, i + Len(sub)) = sub

\* strings.Contains(s, sub).
Contains(s, sub) == \E i \in 0..Len(s) : occursAt(s, sub, i)

\* strings.Index(s, sub), for a sub that s contains: the first offset.
Index(s, sub) ==
  CHOOSE i \in 0..Len(s) :
    occursAt(s, sub, i) /\ \A j \in 0..(i - 1) : ~occursAt(s, sub, j)

\* strings.Count(s, sub): the occurrences that do not overlap, counted from the
\* left; for the empty sub, the characters of s plus one.
RECURSIVE Count(_, _)
Count(s, sub) ==
  IF sub = <<>> THEN Len(s) + 1
  ELSE IF ~Contains(s, sub) THEN 0
  ELSE 1 + Count(SubSeq(s, Index(s, sub) + Len(sub) + 1, Len(s)), sub)

\* strings.Replace(s, old, new, 1): the first occurrence replaced (an empty old
\* matches at the start).
Replace(s, old, new) ==
  IF ~Contains(s, old) THEN s
  ELSE SubSeq(s, 1, Index(s, old)) \o new
         \o SubSeq(s, Index(s, old) + Len(old) + 1, Len(s))

\* replaceEditContent(content, oldText, newText).
replaceEditContent(content, oldText, newText) ==
  IF ~Contains(content, oldText)
    THEN [content |-> <<>>, err |-> "old_text not found in file"]
  ELSE IF Count(content, oldText) > 1
    THEN [content |-> <<>>, err |-> "old_text appears more than once"]
  ELSE [content |-> Replace(content, oldText, newText), err |-> "nil"]

\* editFile(sysFs, path, oldText, newText) on a file holding content: what it
\* returns and what the file holds afterwards. readOK and writeOK tell whether
\* sysFs.ReadFile and sysFs.WriteFile succeed; a WriteFile that fails leaves
\* the file as it was.
editFile(content, readOK, writeOK, oldText, newText) ==
  IF ~readOK THEN [err |-> "failed to read file", wrote |-> FALSE, file |-> content]
  ELSE LET r == replaceEditContent(content, oldText, newText)
       IN IF r.err # "nil" THEN [err |-> r.err, wrote |-> FALSE, file |-> content]
          ELSE IF ~writeOK
            THEN [err |-> "failed to write", wrote |-> TRUE, file |-> content]
          ELSE [err |-> "nil", wrote |-> TRUE, file |-> r.content]

NoEdit ==
  [done |-> FALSE, content |-> <<>>, readOK |-> TRUE, oldText |-> <<>>,
   newText |-> <<>>, ret |-> [err |-> "nil", wrote |-> FALSE, file |-> <<>>]]

InitEdit == ed = NoEdit

\* One Execute of edit_file, on a file of any contents.
editFileCall ==
  /\ ~ed.done
  /\ \E content \in TextsUpTo(MaxText), oldText \in TextsUpTo(MaxArg),
        newText \in TextsUpTo(MaxArg), readOK \in BOOLEAN, writeOK \in BOOLEAN :
       ed' = [done |-> TRUE, content |-> content, readOK |-> readOK,
              oldText |-> oldText, newText |-> newText,
              ret |-> editFile(content, readOK, writeOK, oldText, newText)]
  /\ UNCHANGED <<clientVars, mgrVars, execVars, initVars, idVars, adapterVars,
                 vp, writeVars, sb, searchVars, callVars, appendVars,
                 obsVars>>

NextEdit == editFileCall

\* ---- append_file

Appenders == 1..NAppenders

\* What the file holds before the appends, when it exists.
OldText == <<"a">>

\* errors.Is(err, fs.ErrNotExist) for the errors of ReadFile.
IsErrNotExist(err) == err = "file not found"

\* sysFs.ReadFile(path) on the file f; other is an error that is not about the
\* file missing (access denied, an I/O error).
ReadFile(f, other) ==
  IF other THEN [content |-> <<>>, err |-> "access denied"]
  ELSE IF ~f.exists THEN [content |-> <<>>, err |-> "file not found"]
  ELSE [content |-> f.content, err |-> "nil"]

InitAppend ==
  /\ afile = [set |-> FALSE, exists |-> FALSE, content |-> <<>>, original |-> <<>>]
  /\ apc = [w \in Appenders |-> "idle"]
  /\ aarg = [w \in Appenders |-> <<>>]
  /\ abuf = [w \in Appenders |-> <<>>]
  /\ aret = [w \in Appenders |-> "none"]

\* The file before the first append: missing, or holding OldText.
appendFixture ==
  /\ ~afile.set
  /\ \E there \in BOOLEAN :
       afile' = [set |-> TRUE, exists |-> there,
                 content |-> IF there THEN OldText ELSE <<>>,
                 original |-> IF there THEN OldText ELSE <<>>]
  /\ UNCHANGED <<apc, aarg, abuf, aret>>
  /\ UNCHANGED <<clientVars, mgrVars, execVars, initVars, idVars, adapterVars,
                 vp, writeVars, sb, searchVars, callVars, ed, obsVars>>

\* appendFile up to newContent: the file is read (a missing file reads as
\* empty, any other error is returned) and the new content is built.
appendFileRead(w) ==
  /\ afile.set /\ apc[w] = "idle"
  /\ \E appendContent \in TextsUpTo(MaxArg) \ {<<>>}, other \in BOOLEAN :
       LET r == ReadFile(afile, other)
       IN /\ aarg' = [aarg EXCEPT ![w] = appendContent]
          /\ IF r.err # "nil" /\ ~IsErrNotExist(r.err)
             THEN /\ apc' = [apc EXCEPT ![w] = "done"]
                  /\ aret' = [aret EXCEPT ![w] = r.err]
                  /\ UNCHANGED abuf
             ELSE /\ apc' = [apc EXCEPT ![w] = "write"]
                  /\ abuf' = [abuf EXCEPT ![w] = r.content \o appendContent]
                  /\ UNCHANGED aret
  /\ UNCHANGED afile
  /\ UNCHANGED <<clientVars, mgrVars, execVars, initVars, idVars, adapterVars,
                 vp, writeVars, sb, searchVars, callVars, ed, obsVars>>

\* sysFs.WriteFile(path, newContent): the rename puts newContent in place of
\* whatever the file holds by then; a WriteFile that fails leaves the file.
appendFileWrite(w) ==
  /\ apc[w] = "write"
  /\ \E ok \in BOOLEAN :
       IF ok
       THEN /\ afile' = [afile EXCEPT !.exists = TRUE, !.content = abuf[w]]
            /\ aret' = [aret EXCEPT ![w] = "nil"]
       ELSE /\ aret' = [aret EXCEPT ![w] = "failed to write"]
            /\ UNCHANGED afile
  /\ apc' = [apc EXCEPT ![w] = "done"]
  /\ UNCHANGED <<aarg, abuf>>
  /\ UNCHANGED <<clientVars, mgrVars, execVars, initVars, idVars, adapterVars,
                 vp, writeVars, sb, searchVars, callVars, ed, obsVars>>

NextAppend ==
  \/ appendFixture
  \/ \E w \in Appenders : appendFileRead(w)
  \/ \E w \in Appenders : appendFileWrite(w)

\* The file tools before their first call.
InitTools ==
  /\ InitValidatePath
  /\ InitWriteFile
  /\ InitSandbox
  /\ InitSearch
  /\ InitCall
  /\ InitEdit
  /\ InitAppend

\* A client of either transport, not constructed yet, and a new Manager.
Init ==
  /\ InitClient
  /\ InitMgr
  /\ InitExec
  /\ InitInitFromConfig
  /\ InitIds
  /\ InitAdapter
  /\ InitTools
  /\ InitHandshake

\* The Manager's operations, with the modelled client left aside.
InitMgrSpec ==
  /\ Init
  /\ kind = "stdio"

SpecMgr == InitMgrSpec /\ [][NextMgr]_vars

\* InitFromConfig on a new Manager.
InitInitSpec ==
  /\ Init
  /\ kind = "sse"

SpecInit == InitInitSpec /\ [][NextInit]_vars

\* Concurrent sendRequest calls on one client, as far as their ids go.
InitIdsSpec ==
  /\ Init
  /\ kind = "stdio"

SpecIds == InitIdsSpec /\ [][NextIds]_vars

\* Execute on one adapter.
InitAdapterSpec ==
  /\ Init
  /\ kind = "sse"

SpecAdapter == InitAdapterSpec /\ [][NextAdapter]_vars

\* The operations on one client.
\* The path validator alone.
InitPathSpec ==
  /\ Init
  /\ kind = "stdio"

SpecPath == InitPathSpec /\ [][NextPath]_vars

\* Writers and a reader of one file.
InitWriteSpec ==
  /\ Init
  /\ kind = "stdio"

SpecWrite == InitWriteSpec /\ [][NextWrite]_vars

\* The sandboxed file system alone.
InitSandboxSpec ==
  /\ Init
  /\ kind = "stdio"

SpecSandbox == InitSandboxSpec /\ [][NextSandbox]_vars

\* The search tools and the agent loop's ticks.
InitSearchSpec ==
  /\ Init
  /\ kind = "stdio"

SpecSearch == InitSearchSpec /\ [][NextSearch]_vars

\* call_discovered_tool and the agent loop's ticks.
InitCallSpec ==
  /\ Init
  /\ kind = "stdio"

SpecCall == InitCallSpec /\ [][NextCall]_vars

\* Promotions, by a search or directly, and the agent loop's ticks.
InitTTLSpec ==
  /\ Init
  /\ kind = "stdio"

SpecTTL == InitTTLSpec /\ [][NextTTL]_vars

\* The SSE reader fed line by line.
InitSSESpec ==
  /\ Init
  /\ kind = "sse"

SpecSSE == InitSSESpec /\ [][NextSSE]_vars

\* The SSE client's requests, the status of each POST in view.
InitPostSpec ==
  /\ Init
  /\ kind = "sse"

SpecPost == InitPostSpec /\ [][NextPost]_vars

\* edit_file alone.
InitEditSpec ==
  /\ Init
  /\ kind = "stdio"

SpecEdit == InitEditSpec /\ [][NextEdit]_vars

\* Concurrent append_file calls on one path.
InitAppendSpec ==
  /\ Init
  /\ kind = "stdio"

SpecAppend == InitAppendSpec /\ [][NextAppend]_vars

\* The handshake of one StartAndRegister, for each kind of client.
InitHandshakeSpec ==
  /\ Init
  /\ kind = "stdio"

SpecHandshake == InitHandshakeSpec /\ [][NextHandshake]_vars

\* An SSE client that is closed before any request is made on it.
InitClosedSpec ==
  /\ Init
  /\ kind = "sse"

SpecClosed == InitClosedSpec /\ [][NextClosed]_vars

\* A client left to its reader: no cancellation, no Close. A call that has
\* reached its select is a runnable goroutine and gets to run it.
InitDeadReaderSpec ==
  /\ Init
  /\ kind \in {"stdio", "sse"}

SpecDeadReader ==
  /\ InitDeadReaderSpec
  /\ [][NextDeadReader]_vars
  /\ \A r \in Ids : WF_vars(sendRequestSelect(r))

Spec == Init /\ [][NextClient]_vars

\* ================================================= properties of the clients

\* The calls in flight: installed in c.pending and not returned yet.
inFlight == {r \in Ids : pc[r] \in {"installed", "posted", "select", "parked"}}

\* Request r returns in this step.
returns(r) == pc[r] # "done" /\ pc'[r] = "done"

\* C1: whatever the order in which the peer's responses arrive, a call that
\* receives a response receives the one carrying its own id; a call receives a
\* response exactly when it returns a result or an RPC error, and having received
\* one it is over and never receives another.
C1_OwnResponseOnly ==
  [][\A r \in Ids :
       /\ got'[r] \in {0, r}
       /\ (got'[r] # 0) <=> (outcome'[r] \in {"result", "rpc_error"})
       /\ got[r] # 0 => (got'[r] = got[r] /\ pc[r] = "done" /\ pc'[r] = "done")]_vars

\* Request 2 has returned its own response while request 1, issued before it, is
\* still parked waiting for its own.
C1_Witness ==
  /\ outcome[2] = "result" /\ got[2] = 2
  /\ pc[1] = "parked"

\* C2: once sendRequest has returned, on whatever path, c.pending has no entry
\* for its id; the entries of c.pending are those of the calls in flight.
C2_SlotRemovedOnReturn ==
  /\ \A r \in Ids : pc[r] = "done" => r \notin pending
  /\ pending = inFlight

\* Both requests have returned on error paths (a failed write or POST for one,
\* the caller's cancellation for the other) and the table is empty.
C2_Witness ==
  /\ outcome[1] \in {"write_failed", "post_failed", "post_status"}
  /\ outcome[2] = "ctx"
  /\ pending = {}

\* C3: a sendRequest whose ctx was cancelled while it was in flight returns the
\* ctx error, at whatever step the cancellation found it, and its slot is gone.
C3_CancelledReturnsCtxErr ==
  [][\A r \in Ids :
       (returns(r) /\ callerCtx[r]) => (outcome'[r] = "ctx" /\ r \notin pending')]_vars

C5_AfterEOFClientClosed ==
  [][\A r \in Ids :
       (kind = "stdio" /\ returns(r) /\ afterEOF[r]) => outcome'[r] = "closed"]_vars

\* C6: an SSE client POSTs a request only once the endpoint event has been
\* received and its URL stored in c.postURL, and then to that URL; before that a
\* sendRequest does not get past the POST.
C6_NoPostBeforeEndpoint ==
  [][\A r \in Ids :
       (kind = "sse" /\ wire[r] = "none" /\ wire'[r] # "none") =>
         (endpointSeen /\ wire'[r] = postURL /\ postURL # "sse")]_vars

\* C7: when NewSSEClient's wait ends and no endpoint event has been received, the
\* constructor fails and the client has been closed (c.ctx is cancelled).
C7_NoEndpointNoClient ==
  [][(kind = "sse" /\ ctorPc = "select" /\ ctorPc' # "select" /\ ~endpointSeen') =>
       (ctorPc' = "fail" /\ clientCtx')]_vars

\* ================================================= properties of the Manager

\* The clients built for alias a on which Close() has not been called.
live(a) == {c \in 1..created : cAlias[c] = a /\ c \notin closeCalled}

\* Caller g's StartAndRegister returns res in this step.
startReturns(g, res) ==
  /\ mpc[g] \in {"lock", "create", "initialize", "list", "register"}
  /\ mpc'[g] = "idle"
  /\ mres'[g] = res

\* C8: a StartAndRegister whose alias is in m.clients returns the error having
\* built no client, registered no tool and left the existing client alone; at
\* any time an alias has at most one client that was built and not closed, and
\* an entry of m.clients holds a client built for that alias.
C8_AliasRejectedOnce ==
  [][/\ \A g \in Callers :
          startReturns(g, "exists") =>
            /\ exists(mcfg[g].Name)
            /\ UNCHANGED <<created, registry, clients, closeCalled, cKind, cAlias>>
     /\ \A g \in Callers :
          (mpc[g] = "lock" /\ mpc'[g] = "create") => live(mcfg[g].Name) = {}
     /\ \A a \in Aliases :
          /\ Cardinality(live(a))' <= 1
          /\ clients'[a] # 0 => (cAlias'[clients'[a]] = a /\ clients'[a] \in live(a)')]_vars

\* Of two calls, one has stored the only client ever built and the other was
\* rejected: its alias was the one in the map.
C8_Witness ==
  /\ mres[1] = "ok" /\ mres[2] = "exists"
  /\ created = 1
  /\ clients[cAlias[1]] = 1

\* C9: when StartAndRegister fails after the client was built (Initialize or
\* ListTools failed), Close() was called on the client, the registry has no tool
\* of it and is as it was, and the clients map is as it was, without the alias.
C9_FailedStartLeavesNothing ==
  [][\A g \in Callers :
       (startReturns(g, "initialize") \/ startReturns(g, "list")) =>
         /\ mclient[g] # 0
         /\ mclient[g] \in closeCalled'
         /\ \A n \in RegNames : registry'[n] # mclient[g]
         /\ registry' = registry
         /\ clients' = clients
         /\ clients'[mcfg[g].Name] = 0]_vars

\* A second provider failed at ListTools after a first one had registered a
\* tool: the first one's tool and map entry are there, the second client is closed.
C9_Witness ==
  /\ \E g \in Callers : mres[g] = "list"
  /\ created = 2
  /\ 2 \in closeCalled /\ 1 \notin closeCalled
  /\ clients[cAlias[1]] = 1
  /\ \E n \in RegNames : registry[n] = 1

\* C10: when Shutdown returns, Close() has been called on every client that was
\* in m.clients and the map is empty, so that no alias is rejected as running.
C10_ShutdownClosesAndClears ==
  [][\A g \in Callers :
       (mpc[g] = "range" /\ mpc'[g] = "idle") =>
         /\ snap \subseteq closeCalled'
         /\ \A a \in Aliases : clients'[a] = 0 /\ ~exists(a)']_vars

\* After a Shutdown that closed client 1, a StartAndRegister with the same alias
\* was accepted and stored client 2.
C10_Witness ==
  /\ \E g \in Callers : mres[g] = "shutdown"
  /\ created = 2
  /\ cAlias[1] = cAlias[2]
  /\ \E n \in RegNames : registry[n] = 1
  /\ 1 \in closeCalled
  /\ clients[cAlias[2]] = 2

\* C11: an Execute on an adapter whose client has had Close() called (its
\* provider was shut down) returns an error result, whatever the client's kind.
C11_NoSuccessAfterShutdown == exec.closed => exec.res # "ok"

\* A provider config the spec calls malformed: a type that is none of the three,
\* or a stdio provider without a command.
malformed(cfg) == cfg.Type \notin Types \/ (cfg.Type = "stdio" /\ cfg.Cmd = "")

\* C13: StartAndRegister with a malformed config returns an error from its
\* construction step, having built no client and registered no tool.
C13_MalformedConfigRejected ==
  [][\A g \in Callers :
       (mpc[g] = "create" /\ mpc'[g] # "create" /\ malformed(mcfg[g])) =>
         /\ startReturns(g, "connect")
         /\ created' = created
         /\ registry' = registry]_vars

\* C12: InitFromConfig calls StartAndRegister for every server of the config,
\* whatever the earlier ones returned: when it returns, every name was visited
\* once, and each provider that started is in m.clients with a client that was
\* not closed; no step of it removes a registered tool or a stored client.
C12_InitFromConfigBestEffort ==
  [][/\ \A g \in Callers :
          (icfg.by = g /\ icfg'.by = 0) =>
            /\ {iout[i].name : i \in DOMAIN iout} = DOMAIN icfg.servers
            /\ Len(iout) = Cardinality(DOMAIN icfg.servers)
            /\ \A i \in DOMAIN iout :
                 iout[i].res = "ok" =>
                   /\ clients[iout[i].name] # 0
                   /\ clients[iout[i].name] \notin closeCalled
     /\ \A n \in RegNames : registry[n] # 0 => registry'[n] = registry[n]
     /\ \A a \in Aliases : clients[a] # 0 => clients'[a] = clients[a]]_vars

\* The first provider visited failed to start and the second one, visited after
\* it, started.
C12_Witness ==
  /\ Len(iout) = 2
  /\ iout[1].res \in {"connect", "initialize", "list"}
  /\ iout[2].res = "ok"
  /\ clients[iout[2].name] # 0

\* ================================================= properties of the adapter

\* The blocks of type "text" among blocks, in order.
textBlocks(blocks) == SelectSeq(blocks, LAMBDA b : b.Type = "text")

\* The strings of ss one after the other.
RECURSIVE concat(_)
concat(ss) == IF ss = <<>> THEN <<>> ELSE Head(ss) \o concat(Tail(ss))

\* The text of the text blocks, concatenated as they are.
plainText(blocks) ==
  concat([i \in 1..Len(textBlocks(blocks)) |-> textBlocks(blocks)[i].Text])

\* The text of the text blocks, each followed by a newline.
lineText(blocks) ==
  concat([i \in 1..Len(textBlocks(blocks)) |-> textBlocks(blocks)[i].Text \o <<"\n">>])

\* What Execute made of what CallTool returned, text being the text expected of
\* a CallToolResult.
executeMapping(text) ==
  called # <<>> =>
    /\ called = adapter.originalName
    /\ callRet.err # "" =>
         (toolResult.IsError /\ toolResult.Err = callRet.err
            /\ toolResult.ForLLM = <<"mcp call failed: ", callRet.err>>)
    /\ (callRet.err = "" /\ callRet.IsError) =>
         (toolResult.IsError /\ toolResult.Err = "" /\ toolResult.ForLLM = text)
    /\ (callRet.err = "" /\ ~callRet.IsError) =>
         (~toolResult.IsError /\ toolResult.ForLLM = text)

\* C14 as stated: Execute calls the provider under the original name; an error
\* of CallTool gives an error result wrapping it, isError an error result and
\* anything else a non-error result, whose text is the concatenation of the text
\* of the text blocks.
C14_ExecuteMapsConcatenation == executeMapping(plainText(callRet.Content))

\* C14 as amended: the same, the text being that of the text blocks each
\* followed by a newline.
C14_ExecuteMapsLines == executeMapping(lineText(callRet.Content))

\* CallTool returned isError with a text block after an image block that has a
\* text of its own.
C14_Witness ==
  /\ called # <<>>
  /\ callRet.err = "" /\ callRet.IsError
  /\ Len(callRet.Content) = 2
  /\ callRet.Content[1].Type = "image" /\ callRet.Content[1].Text # <<>>
  /\ callRet.Content[2].Type = "text" /\ callRet.Content[2].Text # <<>>

\* ============================================== properties of the request ids

\* The number a string of decimal digits stands for (-1: not decimal digits).
digitValue(ch) ==
  IF \E d \in 0..9 : Digits[d + 1] = ch
  THEN CHOOSE d \in 0..9 : Digits[d + 1] = ch
  ELSE -1

RECURSIVE value(_)
value(str) ==
  IF str = <<>> THEN 0
  ELSE LET front == SubSeq(str, 1, Len(str) - 1)
           d == digitValue(str[Len(str)])
       IN IF d < 0 \/ value(front) < 0 THEN -1 ELSE 10 * value(front) + d

\* C15: the ids one client hands out are decimal strings, the first is "1", they
\* increase strictly in the order of the increments, no two are the same, and
\* the calls in flight hold different ids.
C15_IdsStrictlyIncreasing ==
  /\ issued # <<>> => issued[1] = <<"1">>
  /\ \A i \in DOMAIN issued : value(issued[i]) > 0 /\ issued[i][1] # "0"
  /\ \A i, j \in DOMAIN issued :
       i < j => (value(issued[i]) < value(issued[j]) /\ issued[i] # issued[j])
  /\ \A g, h \in Callers : (g # h /\ myId[g] # <<>>) => myId[g] # myId[h]

\* Two calls in flight hold the tenth and the eleventh id, of two digits.
C15_Witness ==
  /\ Len(issued) = 11
  /\ myId[1] = <<"1", "1">>
  /\ myId[2] = <<"1", "0">>

\* ---- validatePath

\* Where a path leads when the links of its existing components are followed:
\* a missing component and what comes after it are kept as written.
RECURSIVE followLinks(_, _, _, _)
followLinks(fs, dest, rest, links) ==
  IF rest = <<>> THEN [err |-> "nil", path |-> AbsPath(dest)]
  ELSE LET next == Append(dest, Head(rest)) IN
    IF next \notin DOMAIN fs THEN [err |-> "nil", path |-> AbsPath(dest \o rest)]
    ELSE IF fs[next].kind = "link"
      THEN IF links >= MaxLinks
             THEN [err |-> "too many links", path |-> EmptyPath]
             ELSE followLinks(fs, <<>>, fs[next].target \o Tail(rest), links + 1)
    ELSE IF fs[next].kind = "file" /\ Tail(rest) # <<>>
      THEN [err |-> "ENOTDIR", path |-> EmptyPath]
    ELSE followLinks(fs, next, Tail(rest), links)

\* The location is the directory or below it.
inside(location, directory) ==
  /\ Len(directory.comps) <= Len(location.comps)
  /\ SubSeq(location.comps, 1, Len(directory.comps)) = directory.comps

accessDenied(err) == err \in {OutsideWorkspace, SymlinkOutside}

\* The path the last call was about, and where it and the workspace lead.
calledPath == absPathOf(vp.path, Abs(vp.workspace))
calledLocation == followLinks(vp.fs, <<>>, calledPath.comps, 0)
workspaceLocation == followLinks(vp.fs, <<>>, Abs(vp.workspace).comps, 0)

restrictedCall == vp.done /\ vp.restrict /\ vp.workspace # EmptyPath

escapes ==
  /\ calledLocation.err = "nil"
  /\ workspaceLocation.err = "nil"
  /\ ~inside(calledLocation.path, workspaceLocation.path)

\* C16: with restriction on, a path that leads outside the workspace once the
\* links of its existing components are followed is rejected with an
\* access-denied error, so no path validatePath returns leads outside.
C16_NoSymlinkEscape ==
  restrictedCall /\ escapes => accessDenied(vp.ret.err)

\* Some component of the called path is a link whose target does not exist.
danglingLink ==
  \E n \in 1..Len(calledPath.comps) :
    LET prefix == AbsPath(SubSeq(calledPath.comps, 1, n))
        parent == EvalSymlinks(vp.fs, Dir(prefix))
        entry == Append(parent.path.comps, calledPath.comps[n])
    IN /\ parent.err = "nil"
       /\ entry \in DOMAIN vp.fs
       /\ vp.fs[entry].kind = "link"
       /\ IsNotExist(EvalSymlinks(vp.fs, prefix).err)

\* The same, for the paths none of whose links dangles.
C16_NoEscapeWithoutDangling ==
  restrictedCall /\ escapes /\ ~danglingLink => accessDenied(vp.ret.err)

C16_RejectedEscape ==
  restrictedCall /\ escapes /\ vp.ret.err = SymlinkOutside

\* The path relative to the workspace has no leading "..".
noLeadingDotDot(path, workspace) ==
  LET r == Rel(workspace, path)
  IN r.err = "nil" /\ (r.path.comps = <<>> \/ r.path.comps[1] # "..")

\* The cleaned absolute form of the called path.
cleanedAbsolute ==
  IF vp.path.abs
    THEN Clean(vp.path)
    ELSE Clean(AbsPath(Abs(vp.workspace).comps \o vp.path.comps))

\* C17: validatePath fails without a workspace in both modes; with
\* restriction on, a path it returns is lexically inside the workspace,
\* whether the input was relative or absolute; with restriction off it
\* returns the cleaned absolute path, inside the workspace or not.
C17_LexicalContainment ==
  vp.done =>
    /\ vp.workspace = EmptyPath => vp.ret.err = NoWorkspace
    /\ vp.workspace # EmptyPath /\ vp.restrict /\ vp.ret.err = "nil" =>
         /\ vp.ret.path = cleanedAbsolute
         /\ noLeadingDotDot(vp.ret.path, Abs(vp.workspace))
    /\ vp.workspace # EmptyPath /\ ~vp.restrict =>
         /\ vp.ret.err = "nil"
         /\ vp.ret.path = cleanedAbsolute

\* A restricted call returned an absolute input written with "..".
C17_Witness ==
  /\ restrictedCall /\ vp.ret.err = "nil"
  /\ vp.path.abs
  /\ \E i \in 1..Len(vp.path.comps) : vp.path.comps[i] = ".."

\* ---- WriteFile

\* The complete contents a reader may see: the previous ones, or the data of
\* a writer.
completeContents == {OldData} \cup {DataOf(w) : w \in Writers}

\* C18: while WriteFile calls on a path are in progress, one or several, a
\* reader of the path sees the complete previous contents or the complete
\* data of a write, never an empty or partial file.
C18_ReaderSeesOldOrNew == seen \in completeContents

\* No two calls made their temporary name from the same clock reading.
distinctTmpPaths ==
  \A w1, w2 \in Writers : w1 # w2 /\ wtmp[w1] # 0 => wtmp[w1] # wtmp[w2]

\* The same, as long as the temporary names of the calls differ.
C18_AtomicWithDistinctTmpPaths == distinctTmpPaths => seen \in completeContents

\* A reader saw the data of a write while another write was in progress.
C18_NewDataSeen ==
  /\ distinctTmpPaths
  /\ \E w1, w2 \in Writers :
       /\ seen = DataOf(w1)
       /\ wpc[w2] \in {"open", "write", "rename"}

\* ---- sandboxFs

\* The message of the error has an "access denied" part.
saysAccessDenied(err) == \E i \in 1..Len(err) : err[i] = "access denied"

sandboxDone == sb.done /\ sb.workspace # EmptyPath

\* The path of the last sandbox operation, made absolute as written.
sandboxPath ==
  IF sb.path.abs
    THEN Clean(sb.path)
    ELSE Clean(AbsPath(sb.workspace.comps \o sb.path.comps))

\* The path leaves the workspace as written, or the root handle refused it.
lexicalEscape == ~inside(sandboxPath, sb.workspace)
traversalRefused == sb.ret.rootErr = EscapesParent

\* The entries of a file system outside the directory.
outsideOf(fs, directory) ==
  [n \in {m \in DOMAIN fs : ~inside(AbsPath(m), directory)} |-> fs[n]]

sandboxRoot == EvalSymlinks(sb.fs, Abs(sb.workspace)).path

nothingOutsideTouched ==
  /\ outsideOf(sb.ret.fs, sandboxRoot) = outsideOf(sb.fs, sandboxRoot)
  /\ sb.ret.readAt # NoPlace => inside(AbsPath(sb.ret.readAt), sandboxRoot)

\* C19: list, read and write of the sandbox report a path that escapes the
\* workspace, as written or by the root handle's refusal, with an error that
\* says access denied, and touch nothing outside the workspace.
C19_EscapeIsAccessDenied ==
  sandboxDone /\ (lexicalEscape \/ traversalRefused) =>
    /\ saysAccessDenied(sb.ret.err)
    /\ nothingOutsideTouched

\* An escaping path is refused with some error and nothing outside is
\* touched; a ReadFile the root handle refused says access denied.
C19_EscapeRefused ==
  sandboxDone =>
    /\ nothingOutsideTouched
    /\ lexicalEscape \/ traversalRefused => sb.ret.err # <<>>
    /\ sb.op = "ReadFile" /\ traversalRefused => saysAccessDenied(sb.ret.err)

\* A ReadFile through a link out of the workspace was refused.
C19_RefusedRead ==
  /\ sandboxDone /\ sb.op = "ReadFile" /\ traversalRefused
  /\ saysAccessDenied(sb.ret.err)
  /\ ~lexicalEscape

\* ---- the search tools

hitsOf(res) == {res[i] : i \in 1..Len(res)}

\* A step of the agent loop's tick, which no execution is part of.
tickStep == spc \in {"idle", "done"} /\ UNCHANGED <<spc, sres, sleft, sret>>

\* A search tool returns its hits: each of them is promoted for the default 10
\* iterations.
hitsPromoted ==
  spc = "promote" /\ spc' = "done" =>
    \A t \in hitsOf(sres) : promotions'[t] = 10

\* An execution changes the promotion of a hit only, and to 10.
onlyHitsChanged ==
  ~tickStep =>
    \A t \in Catalog :
      promotions'[t] # promotions[t] => t \in hitsOf(sres) /\ promotions'[t] = 10

\* A search that fails or finds nothing leaves the promotions as they were.
noHitNoChange ==
  spc' = "done" /\ sret' \in {"ErrorResult", "No tools found"} /\ ~tickStep =>
    promotions' = promotions

\* C20: a search tool that succeeds with hits promotes every hit with the
\* TTL 10 and changes the promotion of no other tool; with an invalid pattern
\* or no hit it creates and changes no promotion.
C20_SearchPromotesHitsOnly ==
  [][hitsPromoted /\ onlyHitsChanged /\ noHitNoChange]_vars

\* A search returned two hits while a third tool was promoted with another TTL.
C20_Witness ==
  /\ spc = "done" /\ sret = "Found" /\ Len(sres) = 2
  /\ \A t \in hitsOf(sres) : promotions[t] = 10
  /\ \E t \in Catalog \ hitsOf(sres) : promotions[t] \in 1..9

\* ---- call_discovered_tool

\* A step of an Execute of call_discovered_tool.
callStep == ~(UNCHANGED callVars)

\* The named tool was run once with the arguments of the text, and its
\* result returned.
ranOnceWith(args) ==
  /\ ran = <<[name |-> cname, args |-> args]>>
  /\ cret \in {<<o, cname>> : o \in ToolOutcomes}

\* The call ended with an error result and ran nothing.
rejected == cpc = "done" /\ cret[1] = "ErrorResult" /\ ran = <<>>

callStarted == cpc # "idle"

\* C21: call_discovered_tool runs the named tool once with the object parsed
\* from arguments_json and returns its result; a text that is not a JSON
\* object gives an error result, runs no tool and leaves the promotions alone.
C21_ObjectOrError ==
  /\ [](callStarted /\ cpc = "done" /\ cargs.json \in JsonObjects /\ cname \in Catalog
          => ranOnceWith(<<"map", cargs.json>>))
  /\ [](callStarted /\ cargs.json \notin JsonObjects => rejected)
  /\ [][callStep /\ cargs'.json \notin JsonObjects => promotions' = promotions]_vars

\* The same with null counted among the texts that are accepted: it is run
\* with nil arguments.
argsOf(text) == IF text = "null" THEN <<"map", NilArgs>> ELSE <<"map", text>>

C21_ObjectNullOrError ==
  /\ [](callStarted /\ cpc = "done" /\ cargs.json \in JsonObjects \cup {"null"}
          /\ cname \in Catalog
          => ranOnceWith(argsOf(cargs.json)))
  /\ [](callStarted /\ cargs.json \notin JsonObjects \cup {"null"} => rejected)
  /\ [][callStep /\ cargs'.json \notin JsonObjects \cup {"null"}
          => promotions' = promotions]_vars

\* An array was rejected while a tool was promoted.
C21_RejectedArray ==
  /\ rejected /\ cargs.json = "[1]"
  /\ \E t \in Deferred : promotions[t] > 0

\* The named deferred tool is about to run, or has run, with its TTL renewed.
renewedBeforeRun ==
  /\ cpc = "execute" /\ cname \in Deferred => promotions[cname] = 10
  /\ cpc = "done" /\ ran # <<>> /\ cname \in Deferred /\ ticksSince[cname] < 10
       => cname \in VisibleTools(promotions)

\* A step of the call leaves the visibility of the other tools as it was.
othersKeepVisibility ==
  callStep =>
    \A t \in Catalog \ {cname'} :
      t \in VisibleTools(promotions') <=> t \in VisibleTools(promotions)

\* No name that is not a registered deferred tool has a promotion.
onlyDeferredPromoted == \A n \in PromotionNames \ Deferred : promotions[n] = 0

\* C30: call_discovered_tool of a registered deferred tool sets that tool's
\* TTL to 10 before the tool runs, so it stays visible for 10 more ticks; the
\* call changes the visibility of no other tool and creates no promotion for
\* a name that is not a registered deferred tool.
C30_CallRenewsDeferredOnly ==
  /\ []renewedBeforeRun
  /\ [][othersKeepVisibility]_vars
  /\ []onlyDeferredPromoted

\* The same without its last part: the call changes the promotion of the
\* named tool only.
C30_CallRenewsNamedOnly ==
  /\ []renewedBeforeRun
  /\ [][othersKeepVisibility]_vars
  /\ [][callStep => \A n \in PromotionNames \ {cname'} : promotions'[n] = promotions[n]]_vars

\* A deferred tool whose promotion had run down to 3 was called and renewed.
C30_Renewed ==
  /\ cpc = "execute" /\ cname \in Deferred /\ promotions[cname] = 10
  /\ \E t \in Deferred \ {cname} : promotions[t] = 3

\* ---- promotion TTL

\* C22: a deferred tool promoted with TTL n is in VisibleTools() as long as
\* fewer than n TickPromotions calls have followed its last promotion, and
\* is absent from the n-th on; a tool surfaced by a search is promoted with
\* TTL 10 and so is gone after 10 ticks.
C22_VisibleForTTLTicks ==
  \A t \in Deferred :
    t \in VisibleTools(promotions) <=> ticksSince[t] < lastTTL[t]

\* A tool found by a search is gone after 10 ticks, while a tool promoted
\* with TTL 3 is visible after 2.
C22_Witness ==
  \E t, u \in Deferred :
    /\ sret = "Found" /\ t \in hitsOf(sres)
    /\ lastTTL[t] = 10 /\ ticksSince[t] = 10 /\ t \notin VisibleTools(promotions)
    /\ lastTTL[u] = 3 /\ ticksSince[u] = 2 /\ u \in VisibleTools(promotions)

\* ---- C23

\* Request r has been handed to the transport and its call has not returned.
transmitted(r) == wire[r] # "none"

\* The step in which request r goes out to the peer.
transmits(r) == wire[r] = "none" /\ wire'[r] # "none"

\* C23: the slot of a request is in c.pending before the request is written to the
\* transport, and stays there while the request is out and its call has not
\* returned: a lookup of its id by the reader finds the slot.
C23_SlotBeforeWrite ==
  /\ [](\A r \in Ids : transmitted(r) => lookup(r) = {r})
  /\ [][\A r \in Ids : transmits(r) => r \in pending /\ r \in pending']_vars

\* The reader has looked up the response to a request that is out and is about to
\* hand it to the call parked on the slot.
C23_Witness ==
  \E r \in Ids :
    /\ transmitted(r) /\ pc[r] = "parked"
    /\ readerHolds(r) /\ Head(held).msg.id = r

\* ---- C24

\* The step in which the reader finds no slot for the response it decoded.
dropsUnknown == unknownID' # unknownID

\* The step in which the reader finds a slot for the response it decoded.
findsSlot == rd = "scan" /\ rd' = "send"

\* C24: a response whose id has no slot in c.pending is handed to no channel; the
\* step that drops it leaves every request as it was (its slot, its channel, what
\* it received and returned) and leaves the reader scanning for the next frame.
C24_UnknownIdDropped ==
  /\ [][findsSlot => Head(held').msg.id \in pending]_vars
  /\ [][dropsUnknown =>
         /\ unknownID' \notin pending
         /\ UNCHANGED reqVars
         /\ rd' = "scan" /\ held' = <<>>]_vars

\* The response to the cancelled request 1 was dropped, and the reader has gone on
\* to find the slot of request 2, still parked, for its response.
C24_Witness ==
  /\ unknownID = 1 /\ outcome[1] = "ctx"
  /\ pc[2] = "parked" /\ 2 \in pending
  /\ readerHolds(2) /\ Head(held).msg.id = 2

\* ---- C25

\* What sendRequest returns on an error of its own transmission.
OperationErrors == {"marshal", "write_failed", "post_failed", "post_status"}

\* The step in which sendRequest r returns with an error of its own transmission.
failsAlone(r) ==
  /\ pc[r] # "done" /\ pc'[r] = "done"
  /\ outcome'[r] \in OperationErrors

\* The step leaves request q, its slot and its channel as they were.
untouched(q) ==
  /\ pc'[q] = pc[q] /\ outcome'[q] = outcome[q] /\ got'[q] = got[q]
  /\ chanBuf'[q] = chanBuf[q]
  /\ (q \in pending') = (q \in pending)

\* An error of one request's transmission leaves every other request untouched,
\* the reader where it was and c.ctx as it was.
oneOperationFails ==
  \A r \in Ids :
    failsAlone(r) =>
      /\ \A q \in Ids \ {r} : untouched(q)
      /\ UNCHANGED <<rd, held, clientCtx>>

\* The step in which in-flight request r is torn down: it returns "client closed".
tornDown(r) == pc[r] # "done" /\ pc'[r] = "done" /\ outcome'[r] = "closed"

RECURSIVE eventNameOf(_)
eventNameOf(ls) ==
  IF ls = <<>> THEN ""
  ELSE IF ls[Len(ls)].l = "event" THEN ls[Len(ls)].name
  ELSE eventNameOf(SubSeq(ls, 1, Len(ls) - 1))

\* The payloads of the data: lines among ls, in their order.
isDataLine(ln) == ln.l = "data"
dataOf(ls) ==
  LET ds == SelectSeq(ls, isDataLine) IN [i \in 1..Len(ds) |-> ds[i].tok]

\* The step in which the reader scans the empty line that ends an event.
terminates == nEvents' # nEvents

\* What the end of an event with the lines ls does.
terminated(ls) ==
  /\ currentEvent' = "" /\ dataBuffer' = <<>>
  /\ IF eventNameOf(ls) = "endpoint"
     THEN /\ rd' = "resolving" /\ urlWrite' = resolvePostURL(dataOf(ls))
          /\ handled' = handled
     ELSE /\ rd' # "resolving" /\ urlWrite' = urlWrite
          /\ handled' = IF dataOf(ls) # <<>> THEN Append(handled, dataOf(ls)) ELSE handled

\* C26: while the lines of an event come in, currentEvent is the name of the last
\* event: line and dataBuffer holds the payloads of the data: lines in order; the
\* empty line resets both, sends the data of an `endpoint` event to resolvePostURL
\* (whose result becomes c.postURL) and never to handleMessage, and hands the
\* non-empty data of any other event to handleMessage exactly once.
C26_LineStateMachine ==
  /\ [](currentEvent = eventNameOf(lineLog) /\ dataBuffer = dataOf(lineLog))
  /\ [][terminates => terminated(lineLog)]_vars
  /\ [][handled' # handled => terminates]_vars
  /\ [][postURL' # postURL => rd = "resolving" /\ postURL' = urlWrite]_vars

\* An `endpoint` event stored its URL and a later event with one data line was
\* handed to handleMessage once, which decoded the response with id 1.
C26_Witness ==
  /\ endpointSeen /\ postURL = "endpoint"
  /\ handled = << <<[id |-> 1, err |-> FALSE]>> >>
  /\ unknownID = 1

\* ---- C27

\* What sendRequest returns when its POST failed or was refused.
PostErrors == {"post_failed", "post_status"}

\* The call is in its select, or parked in it.
waits(r) == pc[r] \in {"select", "parked"}

\* The step in which sendRequest r checks the status of the response to its POST.
checksStatus(r) == pc[r] = "posted" /\ pc'[r] # "posted"

\* The step in which the POST of sendRequest r fails (no response comes back).
postFails(r) == pc[r] = "installed" /\ pc'[r] = "done"

\* C27: the SSE sendRequest goes on to wait on its slot exactly when the status of
\* the POST's response is 200 or 202; on any other status, and when the POST
\* itself fails, it returns an error at once, having received nothing, its slot
\* removed; and no response is ever handed to a call that returned such an error.
C27_WaitsIffAccepted ==
  /\ [][\A r \in Ids :
          checksStatus(r) =>
            /\ waits(r)' <=> postStatus[r] \in {200, 202}
            /\ ~waits(r)' => pc'[r] = "done" /\ outcome'[r] = "post_status"]_vars
  /\ [][\A r \in Ids : waits(r)' /\ ~waits(r) => checksStatus(r)]_vars
  /\ [][\A r \in Ids : postFails(r) => outcome'[r] \in {"post_failed", "ctx"}]_vars
  /\ [](\A r \in Ids : outcome[r] \in PostErrors => got[r] = 0 /\ r \notin pending)
  /\ [][findsSlot => outcome[Head(held').msg.id] \notin PostErrors]_vars

\* The POST of request 1 was answered 204 and the call returned the error; the
\* response to 1 that came on the stream was dropped; request 2, answered 202,
\* waits on its slot.
C27_Witness ==
  /\ outcome[1] = "post_status" /\ got[1] = 0
  /\ unknownID = 1
  /\ pc[2] = "parked" /\ 2 \in pending

\* ---- C28

\* The phases of a StartAndRegister that got past the alias check, in order.
phaseBefore(p) ==
  CASE p = "initialize" -> "create"
    [] p = "list" -> "initialize"
    [] p = "register" -> "list"

\* The step in which caller g runs one iteration of the registration loop.
registerStep(g) == mpc[g] = "register" /\ mtools'[g] # mtools[g]

\* The name the definition with the original name n of a provider is registered under.
namespaced(alias, n) == alias \o <<"_">> \o n

\* C28: a StartAndRegister enters Initialize only from the creation of its client,
\* ListTools only from Initialize and the registration loop only from ListTools;
\* the registry changes in no other step than an iteration of that loop; each
\* iteration takes the first definition that is left and registers it, and nothing
\* else, under <alias>_<originalName>; and an alias gets its entry in m.clients
\* only from a call that has no definition left to register.
C28_StartAndRegisterOrder ==
  /\ [][\A g \in Callers :
          mpc'[g] # mpc[g] /\ mpc'[g] \in {"initialize", "list", "register"}
            => mpc[g] = phaseBefore(mpc'[g])]_vars
  /\ [][registry' # registry => \E g \in Callers : registerStep(g)]_vars
  /\ [][\A g \in Callers :
          registerStep(g) =>
            LET name == namespaced(mcfg[g].Name, Head(mtools[g]))
            IN /\ mtools[g] # <<>> /\ mtools'[g] = Tail(mtools[g])
               /\ registry'[name] # 0
               /\ registry[name] = 0 => registry'[name] = mclient[g]
               /\ \A n \in DOMAIN registry \ {name} : registry'[n] = registry[n]]_vars
  /\ [][\A a \in Aliases :
          clients'[a] # clients[a] /\ clients'[a] # 0 =>
            \E g \in Callers :
              /\ mpc[g] = "register" /\ mtools[g] = <<>>
              /\ mcfg[g].Name = a /\ clients'[a] = mclient[g]
              /\ mres'[g] = "ok"]_vars

\* A StartAndRegister of the provider "a", whose tools/list returned "c" and
\* "b_c", has succeeded: both are registered for its client, which is in m.clients.
C28_Witness ==
  /\ \E g \in Callers : mres[g] = "ok"
  /\ clients[<<"a">>] # 0
  /\ registry[<<"a", "_", "c">>] = clients[<<"a">>]
  /\ registry[<<"a", "_", "b", "_", "c">>] = clients[<<"a">>]

\* ---- C29

\* The temporary name of writer w.
tmpOf(w) == tmpPathOf(Target, wtmp[w])

\* What the target holds.
targetContents == inodes[names[Target]]

\* The step in which the WriteFile of writer w returns.
writeReturns(w) == wpc[w] # "done" /\ wpc'[w] = "done"

\* Every return of a WriteFile leaves no temporary file of the call; a failed one
\* leaves the target as it was, a successful one leaves exactly its data in it;
\* and the target changes in no other step than a successful return.
cleanReturns ==
  /\ \A w \in Writers :
       writeReturns(w) =>
         /\ names'[tmpOf(w)] = 0
         /\ werr'[w] # "nil" => targetContents' = targetContents
         /\ werr'[w] = "nil" => targetContents' = DataOf(w)
  /\ targetContents' # targetContents =>
       \E w \in Writers : writeReturns(w) /\ werr'[w] = "nil"

\* C29: a WriteFile that fails in writing its temporary file or in the rename
\* returns an error with the target as it was and the temporary file removed; one
\* that succeeds leaves no temporary file and the target holding exactly its data.
C29_FailureKeepsTarget == [][cleanReturns]_vars

\* The same, as long as the temporary names of the calls differ.
C29_CleanWithDistinctTmpPaths ==
  [][distinctTmpPaths /\ distinctTmpPaths' => cleanReturns]_vars

\* A WriteFile has failed in its rename: its temporary file is gone and the target
\* holds what it held before any write.
C29_FailedRename ==
  \E w \in Writers :
    /\ wpc[w] = "done" /\ werr[w] = "failed to replace original file"
    /\ names[tmpOf(w)] = 0
    /\ targetContents = OldData

\* ---- C31

\* The reader is blocked for good in `ch <- &msg`: the buffer of ch is full and
\* the call that made ch has returned, so nobody will ever receive from it.
readerStuck ==
  /\ rd = "send"
  /\ pc[Head(held).ch] = "done"
  /\ chanBuf[Head(held).ch] # <<>>

\* C31: once StdioClient.Close has returned (cancel, stdin closed, child waited
\* for), no task of the client stays blocked: the reader is not stuck in a send
\* that can never complete.
C31_NoTaskBlockedAfterClose ==
  kind = "stdio" /\ closePc = "done" => ~readerStuck

\* ---- C32

\* The offsets at which sub occurs in s.
occurrences(s, sub) == {i \in 0..Len(s) : occursAt(s, sub, i)}

\* The most occurrences of sub in s no two of which overlap.
disjointOccurrences(s, sub) ==
  LET fits(P) == \A i, j \in P : i < j => i + Len(sub) <= j
      card == {Cardinality(P) : P \in {Q \in SUBSET occurrences(s, sub) : fits(Q)}}
  IN CHOOSE n \in card : \A m \in card : m <= n

\* s with the occurrence of old at the offset i replaced by new.
replacedAt(s, old, new, i) ==
  SubSeq(s, 1, i) \o new \o SubSeq(s, i + Len(old) + 1, Len(s))

\* The file edit_file found is readable and holds exactly n occurrences of old_text.
editCase(n) == ed.done /\ ed.readOK /\ Cardinality(occurrences(ed.content, ed.oldText)) = n

\* C32: edit_file replaces only when old_text occurs exactly once in the file:
\* with no or several occurrences, or an unreadable file, it returns an error,
\* writes nothing and leaves the file; when it succeeds, the file is the old
\* contents with that one occurrence replaced.
C32_EditOnlyUniqueOccurrence ==
  ed.done =>
    /\ ~editCase(1) =>
         ed.ret.err # "nil" /\ ~ed.ret.wrote /\ ed.ret.file = ed.content
    /\ ed.ret.err = "nil" =>
         /\ editCase(1)
         /\ \A i \in occurrences(ed.content, ed.oldText) :
              ed.ret.file = replacedAt(ed.content, ed.oldText, ed.newText, i)

\* The same with the occurrences counted as strings.Count does, overlapping
\* ones once: the first occurrence is the one replaced.
C32_EditOnlyOneDisjointOccurrence ==
  ed.done =>
    LET n == disjointOccurrences(ed.content, ed.oldText)
        one == ed.readOK /\ n = 1
    IN /\ ~one => ed.ret.err # "nil" /\ ~ed.ret.wrote /\ ed.ret.file = ed.content
       /\ ed.ret.err = "nil" =>
            /\ one
            /\ ed.ret.file =
                 replacedAt(ed.content, ed.oldText, ed.newText,
                            Index(ed.content, ed.oldText))

\* edit_file has replaced the one occurrence of "ab" in "aab".
C32_UniqueReplaced ==
  /\ editCase(1) /\ ed.content = <<"a", "a", "b">> /\ ed.oldText = <<"a", "b">>
  /\ ed.ret.err = "nil" /\ ed.ret.file = <<"a">> \o ed.newText

\* ---- C33

\* Client c is the client of a live provider: it is in m.clients and not closed.
liveProvider(c) == c # 0 /\ clients[cAlias[c]] = c /\ c \notin closeCalled

\* C33: the name a StartAndRegister is about to register a tool under is never
\* one that a tool of another live provider is registered under: distinct pairs
\* (alias, original name) yield distinct registered names.
C33_NamesUniqueAcrossProviders ==
  \A g \in Callers :
    mpc[g] = "register" /\ mtools[g] # <<>> =>
      LET name == Sprintf(mcfg[g].Name, Head(mtools[g]))
      IN registry[name] # mclient[g] => ~liveProvider(registry[name])

\* ---- C34

\* A call is parked in its select while the reader is blocked for good in a send
\* to another call's channel: its response will never be read.
starvedByReader == {r \in parked : readerStuck /\ Head(held).ch # r}

\* C34: the reader never blocks for good in the delivery of a response, so no
\* pending request is left behind a reader that cannot serve it.
C34_ReaderNeverBlocksForGood == ~readerStuck /\ starvedByReader = {}

\* ---- C35

\* The calls that have sent their request and not returned yet.
awaiting == {r \in Ids : pc[r] \in {"select", "parked"}}

\* C35: when readLoop returns, every call parked in its select returns the
\* client-closed error in that step; no call is ever parked behind a reader
\* that has returned; and a call that has sent its request and finds the reader
\* gone returns, with no cancellation and no Close.
C35_DeadReaderFailsAwaiters ==
  /\ [][rd # "exited" /\ rd' = "exited" =>
          \A r \in parked : pc'[r] = "done" /\ outcome'[r] = "closed"]_vars
  /\ [](rd = "exited" => parked = {})
  /\ \A r \in Ids : (rd = "exited" /\ r \in awaiting) ~> (pc[r] = "done")

\* The reader has returned with Close never called and no ctx cancelled: a call
\* that was parked in its select then has returned the client-closed error.
C35_Witness ==
  /\ rd = "exited" /\ closePc = "idle"
  /\ \E r \in woken : pc[r] = "done" /\ outcome[r] = "closed"

\* ---- C36

\* Event e is in the log before its position i.
sentBefore(e, i) == \E j \in 1..(i - 1) : sent[j] = e

\* The notification follows the response to initialize, and tools/list follows
\* the notification.
notifiedInOrder ==
  \A i \in DOMAIN sent :
    /\ sent[i] = "notifications/initialized" => sentBefore("initialize response", i)
    /\ sent[i] = "tools/list" => sentBefore("notifications/initialized", i)

\* C36: for every transport, within one StartAndRegister the notification
\* notifications/initialized is sent after the response to initialize was
\* received and before the tools/list request is sent.
C36_NotificationBeforeToolsList == notifiedInOrder

\* The same for the stdio client alone.
C36_StdioNotificationBeforeToolsList ==
  clientKind(hcfg) = "stdio" => notifiedInOrder

\* A stdio handshake has listed the tools, the notification sent in between.
C36_StdioListed ==
  /\ clientKind(hcfg) = "stdio" /\ hpc = "listed"
  /\ sent = <<"initialize", "initialize response", "notifications/initialized",
              "tools/list", "tools/list response">>

\* ---- C37

\* The requests that are with the server: their POST was issued and taken.
posted == {r \in Ids : wire[r] # "none"}

\* C37: once Close has returned on an SSE client, a sendRequest made on it
\* issues no POST: nothing of it reaches the server.
C37_NoPostAfterClose == kind = "sse" /\ closePc = "done" => posted = {}

\* ---- C38

\* The clients the Manager has built so far.
builtClients == 1..created

\* Client c is in m.clients, under the alias it was built for.
tracked(c) == clients[cAlias[c]] = c

\* No StartAndRegister and no Shutdown is in progress.
managerIdle == \A g \in Callers : mpc[g] = "idle"

\* C38: whenever no StartAndRegister or Shutdown call is in progress (and even
\* whenever none holds m.mu), every client the Manager has built is in m.clients
\* or has had Close called on it: none is left open and untracked.
C38_BuiltClientsTrackedOrClosed ==
  managerIdle \/ mu = 0 =>
    \A c \in builtClients : tracked(c) \/ c \in closeCalled

\* With no call in progress: a StartAndRegister has failed in ListTools and its
\* client is closed, a Shutdown has closed and dropped a client, or a client is
\* open in m.clients; two clients were built.
C38_Witness ==
  /\ managerIdle /\ created = 2
  /\ \E g \in Callers : mres[g] = "list"
  /\ \E c \in builtClients : c \in closeCalled /\ ~tracked(c)
  /\ \E c \in builtClients : tracked(c) /\ c \notin closeCalled

\* ---- C39

\* Both appendFile calls have returned nil.
bothAppended == \A w \in Appenders : apc[w] = "done" /\ aret[w] = "nil"

\* C39: once two concurrent append_file calls on one path have both succeeded,
\* the file holds its original contents followed by both appended contents, in
\* one of the two orders.
C39_NoAppendLost ==
  bothAppended =>
    \E w, v \in Appenders :
      /\ w # v
      /\ afile.content = afile.original \o aarg[w] \o aarg[v]

\* ---- C40

\* C40: c.postReady is closed at most once, whatever the constructor and the
\* reader do and however many endpoint events arrive, and it is closed only
\* once an endpoint event has been received.
C40_PostReadyClosedOnceByEndpoint ==
  /\ readyCloses <= 1
  /\ postReady => endpointSeen

\* The part about the double close alone: close(c.postReady) runs at most once,
\* and the channel is closed exactly when it has run.
C40_PostReadyClosedAtMostOnce ==
  /\ readyCloses <= 1
  /\ postReady <=> readyCloses = 1

\* Two endpoint events have been handled, the second one after the channel was
\* closed, and close ran once.
C40_TwoEndpointEvents ==
  /\ nEvents = 2 /\ endpointSeen /\ rd = "scan" /\ postURL = "endpoint"
  /\ handled = <<>>
  /\ readyCloses = 1

====
